---- MODULE Spec2Model ----
(***************************************************************************)
(* Event ingestion pipeline of pixel_api (src/server.ts): validateEvent,   *)
(* the in-memory dedupe cache (shouldStore), the client/session upserts    *)
(* and the transactional writes of POST /events and POST /events/bulk,     *)
(* run by concurrently executing request handlers that yield to each other *)
(* only at awaited database calls.                                         *)
(*                                                                         *)
(* JavaScript values: a top-level field of a request body is a string, and *)
(* an absent field reads as Undefined.  An object is a record that holds   *)
(* only the fields that are present.  The two typed fields that            *)
(* validateEvent inspects with typeof (ecommerce.value, ecommerce.currency)*)
(* carry their JavaScript type: [type |-> "number", v |-> "10"].  An       *)
(* element of a batch is an object or the JSON null (NullItem).  A         *)
(* statement takes its parameters, new Date() among them, when it is       *)
(* issued, and its effect when the awaited call returns.                   *)
(*                                                                         *)
(* The source pins neither the version of Express nor that of Node.  Where *)
(* the outcome of a step depends on them (a rejected promise that no       *)
(* handler catches, the call of app._router.handle) every outcome a        *)
(* deployment can get is a step of the model.                              *)
(***************************************************************************)
EXTENDS Integers, Sequences, FiniteSets, TLC

(* ------------------------------ bounds -------------------------------- *)
MaxReqs == 2       \* request handlers (each handles one request)
MaxBatch == 2      \* longest batch body of POST /events/bulk
MaxTicks == 2      \* times the clock advances in one behaviour
MaxFaults == 1     \* database statements that fail in one behaviour

(* ------------------------ JavaScript values --------------------------- *)
Undefined == "<undefined>"
Null == "<null>"

Has(obj, k) == k \in DOMAIN obj
Get(obj, k) == IF k \in DOMAIN obj THEN obj[k] ELSE Undefined

\* truthiness of a string-or-missing value: undefined, null and "" are falsy
Truthy(v) == v # Undefined /\ v # Null /\ v # ""

\* the JSON null as an element of an array (an element that is an object
\* is a record)
NullItem == [json |-> Null]

\* a value of any type is null, or falsy (undefined, null, "", the number 0,
\* false): values of different types are told apart by their printed form
IsNull(v) == ToString(v) \in {ToString(Null), ToString(NullItem)}
Falsy(v) ==
    ToString(v) \in {ToString(Undefined), ToString(Null), ToString(""),
                     ToString(0), ToString(FALSE)}

\* v || null
OrNull(v) == IF Truthy(v) THEN v ELSE Null

\* typeof obj?.[k] for the typed fields
JsTypeOf(obj, k) == IF k \in DOMAIN obj THEN obj[k].type ELSE "undefined"

JsNumber(s) == [type |-> "number", v |-> s]
JsString(s) == [type |-> "string", v |-> s]

\* COALESCE(a, b) of SQL
Coalesce(a, b) == IF a # Null THEN a ELSE b

Range(s) == { s[i] : i \in DOMAIN s }

(* --------------------------- validateEvent ---------------------------- *)
Ecommerce(ev) == IF Has(ev, "ecommerce") THEN ev.ecommerce ELSE <<>>

\* validateEvent without the client_id rule
validateErrsNoClientRule(ev) ==
    (IF ~Truthy(Get(ev, "event_id")) THEN <<"missing:event_id">> ELSE <<>>)
 \o (IF ~Truthy(Get(ev, "event_name")) THEN <<"missing:event_name">> ELSE <<>>)
 \o (IF Get(ev, "event_name") = "purchase"
       THEN (IF JsTypeOf(Ecommerce(ev), "value") # "number"
               THEN <<"missing:ecommerce.value">> ELSE <<>>)
         \o (IF JsTypeOf(Ecommerce(ev), "currency") # "string"
               THEN <<"missing:ecommerce.currency">> ELSE <<>>)
       ELSE <<>>)

validateErrs(ev) ==
    (IF ~Truthy(Get(ev, "event_id")) THEN <<"missing:event_id">> ELSE <<>>)
 \o (IF ~Truthy(Get(ev, "event_name")) THEN <<"missing:event_name">> ELSE <<>>)
 \o (IF ~Truthy(Get(ev, "client_id")) THEN <<"missing:client_id">> ELSE <<>>)
 \o (IF Get(ev, "event_name") = "purchase"
       THEN (IF JsTypeOf(Ecommerce(ev), "value") # "number"
               THEN <<"missing:ecommerce.value">> ELSE <<>>)
         \o (IF JsTypeOf(Ecommerce(ev), "currency") # "string"
               THEN <<"missing:ecommerce.currency">> ELSE <<>>)
       ELSE <<>>)

validateWarns(ev) ==
    IF ~Truthy(Get(ev, "session_id")) THEN <<"recommend:session_id">> ELSE <<>>

validateEvent(ev) == [errs |-> validateErrs(ev), warns |-> validateWarns(ev)]

(* ----------------------------- shouldStore ---------------------------- *)
Window == 60000

\* a key that also depends on the content of the event
DedupeKeyWithClient(ev) ==
    Get(ev, "event_name") \o ":" \o Get(ev, "event_id") \o ":" \o Get(ev, "client_id")

\* `${ev.event_name}:${ev.event_id}`
DedupeKey(ev) == Get(ev, "event_name") \o ":" \o Get(ev, "event_id")

\* the eviction loop: drop every entry with now - ts > 60000
Sweep(d, t) == [k \in {q \in DOMAIN d : ~(t - d[q] > Window)} |-> d[k]]

\* shouldStore that looks the key up before it evicts
shouldStoreLookupFirst(d, ev, t) ==
    LET key == DedupeKey(ev)
        swept == Sweep(d, t)
    IN  IF key \in DOMAIN d
          THEN [dedupe |-> swept, result |-> FALSE]
          ELSE [dedupe |-> [k \in DOMAIN swept \cup {key} |->
                               IF k = key THEN t ELSE swept[k]],
                result |-> TRUE]

\* a sliding window: a duplicate hit refreshes the insertion time
shouldStoreRefreshes(d, ev, t) ==
    LET swept == Sweep(d, t)
        key == DedupeKey(ev)
    IN  [dedupe |-> [k \in DOMAIN swept \cup {key} |->
                        IF k = key THEN t ELSE swept[k]],
         result |-> key \notin DOMAIN swept]

\* the cache after shouldStore(ev) at time t, and the value it returns
shouldStore(d, ev, t) ==
    LET swept == Sweep(d, t)
        key == DedupeKey(ev)
    IN  IF key \in DOMAIN swept
          THEN [dedupe |-> swept, result |-> FALSE]
          ELSE [dedupe |-> [k \in DOMAIN swept \cup {key} |->
                               IF k = key THEN t ELSE swept[k]],
                result |-> TRUE]

(* -------------------------------- pick -------------------------------- *)
LegacyKeys == <<"utm_source", "utm_medium", "utm_campaign", "utm_content",
                "utm_term", "gclid", "fbclid", "wbraid", "gbraid", "msclkid",
                "ttclid", "yclid">>

\* an object as the set of its <<key, value>> pairs
pick(obj, keys) ==
    { <<keys[i], obj[keys[i]]>> : i \in {j \in DOMAIN keys : Has(obj, keys[j])} }

JsonNull == [kind |-> "null", fields |-> {}]
JsonObject(pairs) == [kind |-> "object", fields |-> pairs]

\* ev.campaign || legacyCampaign || null : a campaign that is undefined,
\* null, "", 0 or false gives way to legacyCampaign, an object that is
\* truthy even when empty
campaignOf(ev) ==
    IF Has(ev, "campaign") /\ ~Falsy(ev.campaign) THEN JsonObject(ev.campaign)
    ELSE JsonObject(pick(ev, LegacyKeys))

(* ------------------------- request bodies ----------------------------- *)
\* two events with the same (event_name, event_id) and no other field alike
EvA == [event_id |-> "e1", event_name |-> "view", client_id |-> "c1",
        session_id |-> "s1", page_location |-> "/a",
        identify |-> [user_id |-> "u1"]]
EvA2 == [event_id |-> "e1", event_name |-> "view", client_id |-> "c2",
         page_location |-> "/b", user_agent |-> "ua-body",
         utm_source |-> "ads", utm_medium |-> "cpc",
         identify |-> [user_id |-> "u2", email_sha256 |-> "h2"]]
\* a later event of client c1 in session s1: new user id, new page
EvB == [event_id |-> "e2", event_name |-> "view", client_id |-> "c1",
        session_id |-> "s1", page_location |-> "/b",
        identify |-> [user_id |-> "u2"]]
\* an event of client c1 that carries traits, no identity and no page; its
\* campaign is false
EvC == [event_id |-> "e3", event_name |-> "click", client_id |-> "c1",
        session_id |-> "s1", traits |-> "t2", campaign |-> FALSE,
        utm_source |-> "ads"]
\* an event whose session_id and campaign are the empty string
EvBlankSession == [event_id |-> "e6", event_name |-> "view", client_id |-> "c2",
                   session_id |-> "", campaign |-> "", utm_source |-> "ads"]
\* two events with different (event_name, event_id) pairs, ':' in the name
\* of one and in the id of the other; the campaign of the first is the
\* number 0, that of the second is null
EvColonName == [event_id |-> "1", event_name |-> "view:x", client_id |-> "c2",
                campaign |-> 0, gclid |-> "g1"]
EvColonId == [event_id |-> "x:1", event_name |-> "view", client_id |-> "c2",
              campaign |-> Null, fbclid |-> "f1", msclkid |-> "m1"]
\* hard validation errors
EvEmpty == <<>>
EvNoEventId == [event_id |-> "", event_name |-> "view", client_id |-> "c1"]
EvNoName == [event_id |-> "e5", client_id |-> "c1", session_id |-> "s1"]
EvPurchaseNoEcommerce == [event_id |-> "e4", event_name |-> "purchase",
                          client_id |-> "c1"]
EvNoClient == [event_id |-> "e1", event_name |-> "view", session_id |-> "s1"]
EvBadPurchase == [event_id |-> "e4", event_name |-> "purchase",
                  client_id |-> "c1", session_id |-> "s1",
                  ecommerce |-> [value |-> JsString("10")]]
EvPurchase == [event_id |-> "e4", event_name |-> "purchase",
               client_id |-> "c2",
               campaign |-> {<<"source", "newsletter">>}, utm_source |-> "ads",
               utm_medium |-> "cpc", page_location |-> "/p",
               ecommerce |-> [value |-> JsNumber("10"),
                              currency |-> JsString("USD")]]

NoHeaders == <<>>
UaHeaders == ("user-agent" :> "ua-header")

\* the requests of POST /events: req.body and req.headers
SingleRequests ==
    { [body |-> EvA, headers |-> UaHeaders],
      [body |-> EvA2, headers |-> UaHeaders],
      [body |-> EvC, headers |-> NoHeaders],
      [body |-> EvBlankSession, headers |-> NoHeaders],
      [body |-> EvColonName, headers |-> NoHeaders],
      [body |-> EvColonId, headers |-> NoHeaders],
      [body |-> EvEmpty, headers |-> NoHeaders],
      [body |-> EvNoEventId, headers |-> NoHeaders],
      [body |-> EvNoName, headers |-> NoHeaders],
      [body |-> EvPurchaseNoEcommerce, headers |-> NoHeaders],
      [body |-> EvNoClient, headers |-> NoHeaders],
      [body |-> EvBadPurchase, headers |-> NoHeaders],
      [body |-> EvPurchase, headers |-> UaHeaders] }

\* the items of a batch: events, and the JSON null
BatchItems == {EvA, EvNoClient, NullItem}

RECURSIVE SeqsUpTo(_, _)
SeqsUpTo(S, n) ==
    IF n = 0 THEN {<<>>}
    ELSE LET shorter == SeqsUpTo(S, n - 1)
         IN  shorter \cup { Append(q, x) : q \in {p \in shorter : Len(p) = n - 1},
                                           x \in S }

BatchBodies == SeqsUpTo(BatchItems, MaxBatch)

\* the requests of POST /events/bulk
BatchRequests == { [body |-> b, headers |-> UaHeaders] : b \in BatchBodies }

\* requests that race on the fingerprint (view, e1), and one that does not
RaceSingles == { [body |-> EvA, headers |-> UaHeaders],
                 [body |-> EvA2, headers |-> UaHeaders],
                 [body |-> EvB, headers |-> NoHeaders] }
RaceBatches == { [body |-> b, headers |-> UaHeaders] :
                   b \in SeqsUpTo({EvA, EvB}, MaxBatch) \ {<<>>} }

UserBodies == { [client_id |-> "c1"],
                [client_id |-> "c1", user_id |-> "u3", phone_sha256 |-> "p3",
                 traits |-> "t1"] }

SessionBodies == { [session_id |-> "s1", client_id |-> "c2",
                    first_page |-> "/c", last_page |-> "/c"],
                   [session_id |-> "s1"] }

\* the bodies of POST /purchases: a purchase, and one without currency
PurchaseBodies == { [client_id |-> "c1", session_id |-> "s1", purchase_id |-> "p1",
                     value |-> "10", currency |-> "USD"],
                    [client_id |-> "c1", purchase_id |-> "p1", value |-> "10"] }

\* req.params.client_id of GET /users/:client_id: a client the requests
\* name, and one that no request names
ClientParams == {"c1", "c3"}

\* an upsert of the client and one of the session that those events name
RaceUsers == { b \in UserBodies : Has(b, "traits") }
RaceSessions == { b \in SessionBodies : ~Has(b, "client_id") }
RacePurchases == { b \in PurchaseBodies : Has(b, "currency") }
RaceParams == {"c1"}

(* ------------------------------- state -------------------------------- *)
Reqs == 1..MaxReqs

VARIABLES
    now,             \* Date.now()
    ticks,           \* times the clock has advanced
    dedupe,          \* the Map of shouldStore: key -> insertion time
    pixel_events,    \* committed rows of public.pixel_events
    pixel_users,     \* committed rows of public.pixel_users, by client_id
    pixel_sessions,  \* committed rows of public.pixel_sessions, by session_id
    pixel_metadata,  \* committed rows of public.pixel_metadata
    nextId,          \* the serial of pixel_events.id
    pc,              \* per handler: the awaited call it is suspended at
    route,           \* per handler: the route whose handler serves it
    body,            \* per handler: req.body (req.params of a GET route)
    headers,         \* per handler: req.headers
    idx,             \* per bulk handler: position of the loop in the batch
    ok,              \* per bulk handler: the counter ok
    warns,           \* per single handler: warns of validateEvent
    eventDbId,       \* per single handler: rows[0].id
    issued,          \* per handler: the new Date() among the parameters of
                     \* the upsert it is suspended in (0 when it is in none)
    tx,              \* per handler: uncommitted writes of its transaction
    conn,            \* per handler: "none", "held" or "released"
    resp,            \* per handler: the responses sent, in order
    checks,          \* history: every call of shouldStore, in order
    faults           \* database calls that failed so far

db == <<pixel_events, pixel_users, pixel_sessions, pixel_metadata>>
locals == <<pc, route, body, headers, idx, ok, warns, eventDbId, issued, tx, conn, resp>>
vars == <<now, ticks, dedupe, pixel_events, pixel_users, pixel_sessions,
          pixel_metadata, nextId, pc, route, body, headers, idx, ok, warns,
          eventDbId, issued, tx, conn, resp, checks, faults>>

EmptyTx == [events |-> {}, users |-> <<>>, sessions |-> <<>>, metadata |-> {}]

Init ==
    /\ now = 0
    /\ ticks = 0
    /\ dedupe = <<>>
    /\ pixel_events = {}
    /\ pixel_users = <<>>
    /\ pixel_sessions = <<>>
    /\ pixel_metadata = {}
    /\ nextId = 1
    /\ pc = [r \in Reqs |-> "idle"]
    /\ route = [r \in Reqs |-> "none"]
    /\ body = [r \in Reqs |-> <<>>]
    /\ headers = [r \in Reqs |-> <<>>]
    /\ idx = [r \in Reqs |-> 0]
    /\ ok = [r \in Reqs |-> 0]
    /\ warns = [r \in Reqs |-> <<>>]
    /\ eventDbId = [r \in Reqs |-> 0]
    /\ issued = [r \in Reqs |-> 0]
    /\ tx = [r \in Reqs |-> EmptyTx]
    /\ conn = [r \in Reqs |-> "none"]
    /\ resp = [r \in Reqs |-> <<>>]
    /\ checks = <<>>
    /\ faults = 0

(* ------------------------------ clock --------------------------------- *)
TickSteps == {1, Window}

Tick(d) ==
    /\ ticks < MaxTicks
    /\ ticks' = ticks + 1
    /\ now' = now + d
    /\ UNCHANGED <<dedupe, db, nextId, locals, checks, faults>>

(* --------------------------- the database ----------------------------- *)
Put(f, k, v) == [x \in DOMAIN f \cup {k} |-> IF x = k THEN v ELSE f[x]]

\* a transaction is open from pool.connect() until COMMIT or ROLLBACK
\* (a failed statement leaves it open until ROLLBACK)
InTx(r) == conn[r] = "held"

\* a row written by an open transaction is locked against every other
\* connection until that transaction ends (INSERT ... ON CONFLICT waits)
UserLocked(c, r) == \E o \in Reqs \ {r} : InTx(o) /\ c \in DOMAIN tx[o].users
SessionLocked(s, r) == \E o \in Reqs \ {r} : InTx(o) /\ s \in DOMAIN tx[o].sessions

\* POST /users without COALESCE: every column overwritten
usersUpsertOverwrites(users, b, t) ==
    Put(users, b.client_id,
        [traits |-> IF Truthy(Get(b, "traits")) THEN b.traits ELSE "{}",
         last_seen |-> IF Truthy(Get(b, "last_seen")) THEN b.last_seen ELSE t,
         user_id |-> OrNull(Get(b, "user_id")),
         email_sha256 |-> OrNull(Get(b, "email_sha256")),
         phone_sha256 |-> OrNull(Get(b, "phone_sha256"))])

\* POST /users: traits and last_seen overwritten, identity coalesced
usersUpsert(users, b, t) ==
    LET c == b.client_id
        excluded == [traits |-> IF Truthy(Get(b, "traits")) THEN b.traits ELSE "{}",
                     last_seen |-> IF Truthy(Get(b, "last_seen")) THEN b.last_seen ELSE t,
                     user_id |-> OrNull(Get(b, "user_id")),
                     email_sha256 |-> OrNull(Get(b, "email_sha256")),
                     phone_sha256 |-> OrNull(Get(b, "phone_sha256"))]
    IN  IF c \in DOMAIN users
          THEN [users EXCEPT ![c] =
                  [traits |-> excluded.traits,
                   last_seen |-> excluded.last_seen,
                   user_id |-> Coalesce(excluded.user_id, @.user_id),
                   email_sha256 |-> Coalesce(excluded.email_sha256, @.email_sha256),
                   phone_sha256 |-> Coalesce(excluded.phone_sha256, @.phone_sha256)]]
          ELSE Put(users, c, excluded)

\* the query parameter client_id: a value is sent as it is ("" included),
\* undefined is sent as NULL
ClientIdParam(b) == IF Has(b, "client_id") THEN b.client_id ELSE Null

\* POST /sessions: client_id overwritten, first_page sticky, last_page coalesced
sessionsUpsert(sessions, b, t) ==
    LET s == b.session_id
        excluded == [client_id |-> ClientIdParam(b),
                     started_at |-> IF Truthy(Get(b, "started_at")) THEN b.started_at ELSE t,
                     first_page |-> OrNull(Get(b, "first_page")),
                     last_page |-> OrNull(Get(b, "last_page"))]
    IN  IF s \in DOMAIN sessions
          THEN [sessions EXCEPT ![s] =
                  [client_id |-> excluded.client_id,
                   started_at |-> @.started_at,
                   first_page |-> Coalesce(@.first_page, excluded.first_page),
                   last_page |-> Coalesce(excluded.last_page, @.last_page)]]
          ELSE Put(sessions, s, excluded)

\* ev.identify?.[k] || null
Identify(ev, k) == IF Has(ev, "identify") THEN OrNull(Get(ev.identify, k)) ELSE Null

\* the client upsert with the arguments of COALESCE swapped: the stored
\* identity wins over the one the event carries
eventUserUpsertKeepsStored(users, ev, t) ==
    LET c == ev.client_id
    IN  IF c \in DOMAIN users
          THEN [users EXCEPT ![c] =
                  [traits |-> @.traits,
                   last_seen |-> t,
                   user_id |-> Coalesce(@.user_id, Identify(ev, "user_id")),
                   email_sha256 |-> Coalesce(@.email_sha256, Identify(ev, "email_sha256")),
                   phone_sha256 |-> Coalesce(@.phone_sha256, Identify(ev, "phone_sha256"))]]
          ELSE Put(users, c, [traits |-> IF Truthy(Get(ev, "traits")) THEN ev.traits ELSE "{}",
                              last_seen |-> t,
                              user_id |-> Identify(ev, "user_id"),
                              email_sha256 |-> Identify(ev, "email_sha256"),
                              phone_sha256 |-> Identify(ev, "phone_sha256")])

\* POST /events: the client upsert (traits only on insert)
eventUserUpsert(users, ev, t) ==
    LET c == ev.client_id
        excluded == [traits |-> IF Truthy(Get(ev, "traits")) THEN ev.traits ELSE "{}",
                     last_seen |-> t,
                     user_id |-> Identify(ev, "user_id"),
                     email_sha256 |-> Identify(ev, "email_sha256"),
                     phone_sha256 |-> Identify(ev, "phone_sha256")]
    IN  IF c \in DOMAIN users
          THEN [users EXCEPT ![c] =
                  [traits |-> @.traits,
                   last_seen |-> excluded.last_seen,
                   user_id |-> Coalesce(excluded.user_id, @.user_id),
                   email_sha256 |-> Coalesce(excluded.email_sha256, @.email_sha256),
                   phone_sha256 |-> Coalesce(excluded.phone_sha256, @.phone_sha256)]]
          ELSE Put(users, c, excluded)

\* POST /events: the session upsert (pages only on insert)
eventSessionUpsert(sessions, ev, t) ==
    LET s == ev.session_id
        excluded == [client_id |-> ClientIdParam(ev),
                     started_at |-> IF Truthy(Get(ev, "started_at")) THEN ev.started_at ELSE t,
                     first_page |-> OrNull(Get(ev, "page_location")),
                     last_page |-> OrNull(Get(ev, "page_location"))]
    IN  IF s \in DOMAIN sessions
          THEN [sessions EXCEPT ![s].client_id = excluded.client_id]
          ELSE Put(sessions, s, excluded)

\* POST /events/bulk: the minimal client upsert (client_id, last_seen);
\* the columns it does not name take the NULL default
bulkUserUpsert(users, ev, t) ==
    LET c == ev.client_id
    IN  IF c \in DOMAIN users
          THEN [users EXCEPT ![c].last_seen = t]
          ELSE Put(users, c, [traits |-> Null, last_seen |-> t, user_id |-> Null,
                              email_sha256 |-> Null, phone_sha256 |-> Null])

\* POST /events/bulk: the minimal session upsert (session_id, client_id, started_at)
bulkSessionUpsert(sessions, ev, t) ==
    LET s == ev.session_id
    IN  IF s \in DOMAIN sessions
          THEN [sessions EXCEPT ![s].client_id = ClientIdParam(ev)]
          ELSE Put(sessions, s, [client_id |-> ClientIdParam(ev), started_at |-> t,
                                 first_page |-> Null, last_page |-> Null])

\* the row of pixel_events for ev: the columns the properties read, the id
\* RETURNING gives, and the request and item the row was written for
eventRow(id, ev, ua, r, i) ==
    [id |-> id,
     event_id |-> OrNull(Get(ev, "event_id")),
     event_name |-> OrNull(Get(ev, "event_name")),
     client_id |-> OrNull(Get(ev, "client_id")),
     session_id |-> IF Has(ev, "session_id") THEN ev.session_id ELSE Null,
     page_location |-> OrNull(Get(ev, "page_location")),
     user_agent |-> ua,
     campaign |-> campaignOf(ev),
     req |-> r, item |-> i]

\* the row of pixel_metadata
metadataRow(eid, hd, r) ==
    [pixel_event_id |-> eid,
     user_agent |-> OrNull(Get(hd, "user-agent")),
     req |-> r]

\* what a transaction sees of a table: its own writes over the committed rows
Overlay(committed, own) ==
    [k \in DOMAIN committed \cup DOMAIN own |->
        IF k \in DOMAIN own THEN own[k] ELSE committed[k]]

(* --------------------- POST /users, POST /sessions --------------------- *)
\* handlers are taken in order: handler r serves the r-th request received
Free(r) == pc[r] = "idle" /\ \A o \in Reqs : o < r => pc[o] # "idle"

Respond(r, m) == resp' = [resp EXCEPT ![r] = Append(@, m)]

\* the statements whose parameter list holds a new Date()
Upserts == {"users_query", "sessions_query", "s_user", "s_session", "b_user", "b_session"}

\* handler r suspends in the awaited call p: the parameters of a statement,
\* new Date() among them, are built when the statement is issued
Issue(r, p) == issued' = [issued EXCEPT ![r] = IF p \in Upserts THEN now ELSE 0]

\* the handler runs from the request to await pool.query(...): the
\* parameters are built, last_seen || new Date() among them
PostUsers(r, b) ==
    /\ Free(r)
    /\ route' = [route EXCEPT ![r] = "users"]
    /\ body' = [body EXCEPT ![r] = b]
    /\ pc' = [pc EXCEPT ![r] = "users_query"]
    /\ Issue(r, pc'[r])
    /\ UNCHANGED <<now, ticks, dedupe, db, nextId, headers, idx, ok, warns, eventDbId,
                   tx, conn, resp, checks, faults>>

\* await pool.query(...) returns; res.json(rows[0])
PostUsersQuery(r) ==
    /\ pc[r] = "users_query"
    /\ ~UserLocked(body[r].client_id, r)
    /\ pixel_users' = usersUpsert(pixel_users, body[r], issued[r])
    /\ Respond(r, [status |-> 200, row |-> pixel_users'[body[r].client_id]])
    /\ pc' = [pc EXCEPT ![r] = "done"]
    /\ Issue(r, pc'[r])
    /\ UNCHANGED <<now, ticks, dedupe, pixel_events, pixel_sessions, pixel_metadata, nextId,
                   route, body, headers, idx, ok, warns, eventDbId, tx, conn, checks, faults>>

\* the handler runs from the request to await pool.query(...): the
\* parameters are built, started_at || new Date() among them
PostSessions(r, b) ==
    /\ Free(r)
    /\ route' = [route EXCEPT ![r] = "sessions"]
    /\ body' = [body EXCEPT ![r] = b]
    /\ pc' = [pc EXCEPT ![r] = "sessions_query"]
    /\ Issue(r, pc'[r])
    /\ UNCHANGED <<now, ticks, dedupe, db, nextId, headers, idx, ok, warns, eventDbId,
                   tx, conn, resp, checks, faults>>

\* await pool.query(...) returns; res.json(rows[0])
PostSessionsQuery(r) ==
    /\ pc[r] = "sessions_query"
    /\ ~SessionLocked(body[r].session_id, r)
    /\ pixel_sessions' = sessionsUpsert(pixel_sessions, body[r], issued[r])
    /\ Respond(r, [status |-> 200, row |-> pixel_sessions'[body[r].session_id]])
    /\ pc' = [pc EXCEPT ![r] = "done"]
    /\ Issue(r, pc'[r])
    /\ UNCHANGED <<now, ticks, dedupe, pixel_events, pixel_users, pixel_metadata, nextId,
                   route, body, headers, idx, ok, warns, eventDbId, tx, conn, checks, faults>>

(* ----------------- GET /users, /users/:client_id, /sessions ------------- *)
\* the handler runs to await pool.query("SELECT * FROM public.pixel_users")
GetUsers(r) ==
    /\ Free(r)
    /\ route' = [route EXCEPT ![r] = "get_users"]
    /\ pc' = [pc EXCEPT ![r] = "get_users_query"]
    /\ Issue(r, pc'[r])
    /\ UNCHANGED <<now, ticks, dedupe, db, nextId, body, headers, idx, ok, warns,
                   eventDbId, tx, conn, resp, checks, faults>>

\* the SELECT returns the committed rows; res.json(rows)
GetUsersQuery(r) ==
    /\ pc[r] = "get_users_query"
    /\ Respond(r, [status |-> 200, rows |-> pixel_users])
    /\ pc' = [pc EXCEPT ![r] = "done"]
    /\ Issue(r, pc'[r])
    /\ UNCHANGED <<now, ticks, dedupe, db, nextId, route, body, headers, idx, ok, warns,
                   eventDbId, tx, conn, checks, faults>>

\* the handler runs to await pool.query("... WHERE client_id=$1", [client_id])
GetUser(r, c) ==
    /\ Free(r)
    /\ route' = [route EXCEPT ![r] = "get_user"]
    /\ body' = [body EXCEPT ![r] = [client_id |-> c]]
    /\ pc' = [pc EXCEPT ![r] = "get_user_query"]
    /\ Issue(r, pc'[r])
    /\ UNCHANGED <<now, ticks, dedupe, db, nextId, headers, idx, ok, warns, eventDbId,
                   tx, conn, resp, checks, faults>>

\* res.json(rows[0] || null)
GetUserQuery(r) ==
    /\ pc[r] = "get_user_query"
    /\ Respond(r, [status |-> 200,
                   row |-> IF body[r].client_id \in DOMAIN pixel_users
                             THEN pixel_users[body[r].client_id] ELSE NullItem])
    /\ pc' = [pc EXCEPT ![r] = "done"]
    /\ Issue(r, pc'[r])
    /\ UNCHANGED <<now, ticks, dedupe, db, nextId, route, body, headers, idx, ok, warns,
                   eventDbId, tx, conn, checks, faults>>

\* the handler runs to await pool.query("SELECT * FROM public.pixel_sessions")
GetSessions(r) ==
    /\ Free(r)
    /\ route' = [route EXCEPT ![r] = "get_sessions"]
    /\ pc' = [pc EXCEPT ![r] = "get_sessions_query"]
    /\ Issue(r, pc'[r])
    /\ UNCHANGED <<now, ticks, dedupe, db, nextId, body, headers, idx, ok, warns,
                   eventDbId, tx, conn, resp, checks, faults>>

\* the SELECT returns the committed rows; res.json(rows)
GetSessionsQuery(r) ==
    /\ pc[r] = "get_sessions_query"
    /\ Respond(r, [status |-> 200, rows |-> pixel_sessions])
    /\ pc' = [pc EXCEPT ![r] = "done"]
    /\ Issue(r, pc'[r])
    /\ UNCHANGED <<now, ticks, dedupe, db, nextId, route, body, headers, idx, ok, warns,
                   eventDbId, tx, conn, checks, faults>>

\* GET /health: res.json({ ok: true }), no await
GetHealth(r) ==
    /\ Free(r)
    /\ route' = [route EXCEPT ![r] = "health"]
    /\ Respond(r, [status |-> 200, ok |-> TRUE])
    /\ pc' = [pc EXCEPT ![r] = "done"]
    /\ UNCHANGED <<now, ticks, dedupe, db, nextId, body, headers, idx, ok, warns,
                   eventDbId, issued, tx, conn, checks, faults>>

(* ------------------- a query outside every try/catch ------------------- *)
\* the awaited pool.query of the handlers that have no try/catch: GET /users,
\* GET /users/:client_id, POST /users, GET /sessions, POST /sessions
Uncaught == {"get_users_query", "get_user_query", "users_query",
             "get_sessions_query", "sessions_query"}

\* pool.query rejects in one of those handlers: the promise the handler
\* returned rejects with nobody catching it.
\* What follows is decided by the runtime.  Express 4 on Node before 15:
\* a warning is printed and the handler ends without sending a response
PostQueryFails(r) ==
    /\ pc[r] \in Uncaught
    /\ faults < MaxFaults
    /\ faults' = faults + 1
    /\ pc' = [pc EXCEPT ![r] = "done"]
    /\ Issue(r, pc'[r])
    /\ UNCHANGED <<now, ticks, dedupe, db, nextId, route, body, headers, idx, ok, warns,
                   eventDbId, tx, conn, resp, checks>>

\* Express 4 on Node 15 or later: the unhandled rejection ends the process.
\* The Map is gone, no handler in flight is resumed or answers, no request
\* is received any more, and the database aborts the transactions of the
\* connections that were open
PostQueryFailsExit(r) ==
    /\ pc[r] \in Uncaught
    /\ faults < MaxFaults
    /\ faults' = faults + 1
    /\ pc' = [o \in Reqs |-> IF pc[o] = "done" THEN "done" ELSE "exited"]
    /\ dedupe' = <<>>
    /\ tx' = [o \in Reqs |-> EmptyTx]
    /\ issued' = [o \in Reqs |-> 0]
    /\ UNCHANGED <<now, ticks, db, nextId, route, body, headers, idx, ok, warns,
                   eventDbId, conn, resp, checks>>

\* Express 5: the rejection is passed to the default error handler, which
\* answers 500
PostQueryFailsAnswered(r) ==
    /\ pc[r] \in Uncaught
    /\ faults < MaxFaults
    /\ faults' = faults + 1
    /\ Respond(r, [status |-> 500, error |-> "Internal Server Error"])
    /\ pc' = [pc EXCEPT ![r] = "done"]
    /\ Issue(r, pc'[r])
    /\ UNCHANGED <<now, ticks, dedupe, db, nextId, route, body, headers, idx, ok, warns,
                   eventDbId, tx, conn, checks>>

(* ---------------------------- POST /events ---------------------------- *)
CheckRecord(r, i, ev, t, res) ==
    [req |-> r, item |-> i, key |-> DedupeKey(ev),
     event_name |-> Get(ev, "event_name"), event_id |-> Get(ev, "event_id"),
     at |-> t, result |-> res]

\* the first awaited call after the dedupe check
SingleAfterDedupe(ev) ==
    IF Truthy(Get(ev, "client_id")) THEN "s_user"
    ELSE IF Truthy(Get(ev, "session_id")) THEN "s_session" ELSE "s_connect"

\* the handler calling shouldStore before validateEvent
SingleStartDedupeFirst(r, ev, hd) ==
    /\ Free(r)
    /\ route' = [route EXCEPT ![r] = "single"]
    /\ body' = [body EXCEPT ![r] = ev]
    /\ headers' = [headers EXCEPT ![r] = hd]
    /\ LET v == validateEvent(ev)
           s == shouldStore(dedupe, ev, now)
       IN  /\ dedupe' = s.dedupe
           /\ checks' = Append(checks, CheckRecord(r, 0, ev, now, s.result))
           /\ IF ~s.result
                THEN /\ Respond(r, [status |-> 200, ok |-> TRUE, deduped |-> TRUE])
                     /\ pc' = [pc EXCEPT ![r] = "done"]
                     /\ UNCHANGED warns
                ELSE IF Len(v.errs) > 0
                THEN /\ Respond(r, [status |-> 400, error |-> "invalid_event",
                                    errs |-> v.errs, warns |-> v.warns])
                     /\ pc' = [pc EXCEPT ![r] = "done"]
                     /\ UNCHANGED warns
                ELSE /\ pc' = [pc EXCEPT ![r] = SingleAfterDedupe(ev)]
                     /\ warns' = [warns EXCEPT ![r] = v.warns]
                     /\ UNCHANGED resp
    /\ Issue(r, pc'[r])
    /\ UNCHANGED <<now, ticks, db, nextId, idx, ok, eventDbId, tx, conn, faults>>

\* the handler runs from the request to its first await:
\* validateEvent, shouldStore, then the client upsert is issued
SingleStart(r, ev, hd) ==
    /\ Free(r)
    /\ route' = [route EXCEPT ![r] = "single"]
    /\ body' = [body EXCEPT ![r] = ev]
    /\ headers' = [headers EXCEPT ![r] = hd]
    /\ LET v == validateEvent(ev)
       IN  IF Len(v.errs) > 0
             THEN /\ Respond(r, [status |-> 400, error |-> "invalid_event",
                                 errs |-> v.errs, warns |-> v.warns])
                  /\ pc' = [pc EXCEPT ![r] = "done"]
                  /\ UNCHANGED <<dedupe, checks, warns>>
             ELSE LET s == shouldStore(dedupe, ev, now)
                  IN  /\ dedupe' = s.dedupe
                      /\ checks' = Append(checks, CheckRecord(r, 0, ev, now, s.result))
                      /\ IF s.result
                           THEN /\ pc' = [pc EXCEPT ![r] = SingleAfterDedupe(ev)]
                                /\ warns' = [warns EXCEPT ![r] = v.warns]
                                /\ UNCHANGED resp
                           ELSE /\ Respond(r, [status |-> 200, ok |-> TRUE, deduped |-> TRUE])
                                /\ pc' = [pc EXCEPT ![r] = "done"]
                                /\ UNCHANGED warns
    /\ Issue(r, pc'[r])
    /\ UNCHANGED <<now, ticks, db, nextId, idx, ok, eventDbId, tx, conn, faults>>

(* --------------------------- POST /purchases -------------------------- *)
\* the event POST /purchases builds from req.body (a key whose value is
\* undefined is an absent field): event_id is purchase_id, ecommerce.value
\* is Number(value || 0), always a number, ecommerce.currency is
\* currency || null; timestamp and items are left out
purchaseEvent(b) ==
    LET keys == {"event_name", "ecommerce", "message"}
                   \cup (IF Has(b, "purchase_id") THEN {"event_id"} ELSE {})
                   \cup { k \in {"client_id", "session_id"} : Has(b, k) }
    IN  [k \in keys |->
           CASE k = "event_id" -> b.purchase_id
             [] k = "event_name" -> "purchase"
             [] k = "ecommerce" ->
                  [value |-> JsNumber(IF Truthy(Get(b, "value")) THEN b.value ELSE "0"),
                   currency |-> IF Truthy(Get(b, "currency")) THEN JsString(b.currency)
                                ELSE [type |-> "object", v |-> Null]]
             [] k = "message" -> "legacy /purchases"
             [] OTHER -> b[k]]

\* req.body = ev; app._router.handle(req, res, () => {}, "post", "/events"):
\* the router takes three arguments and req.url is still /purchases, so the
\* request never reaches the handler of POST /events.  What the call does
\* is decided by the version of Express.
\* With app._router (Express 4) the router matches this route again and
\* the handler re-enters itself, each level building ev from the ev of the
\* level above (which has no purchase_id, value or currency) and assigning
\* it to req.body, until the call stack is exhausted: the RangeError
\* surfaces where no catch of the route completes, and no response is sent
PostPurchasesReenters(r, b, hd) ==
    /\ Free(r)
    /\ route' = [route EXCEPT ![r] = "purchases"]
    /\ body' = [body EXCEPT ![r] = purchaseEvent(purchaseEvent(b))]
    /\ headers' = [headers EXCEPT ![r] = hd]
    /\ pc' = [pc EXCEPT ![r] = "done"]
    /\ UNCHANGED <<now, ticks, dedupe, db, nextId, idx, ok, warns, eventDbId, issued,
                   tx, conn, resp, checks, faults>>

\* Without app._router (Express 5) the call throws at once: the catch of
\* the route answers 500
PostPurchasesThrows(r, b, hd) ==
    /\ Free(r)
    /\ route' = [route EXCEPT ![r] = "purchases"]
    /\ body' = [body EXCEPT ![r] = purchaseEvent(b)]
    /\ headers' = [headers EXCEPT ![r] = hd]
    /\ Respond(r, [status |-> 500, error |-> "Erro ao salvar compra"])
    /\ pc' = [pc EXCEPT ![r] = "done"]
    /\ UNCHANGED <<now, ticks, dedupe, db, nextId, idx, ok, warns, eventDbId, issued,
                   tx, conn, checks, faults>>

PostPurchases(r, b, hd) ==
    \/ PostPurchasesReenters(r, b, hd)
    \/ PostPurchasesThrows(r, b, hd)

\* the client upsert issued on the transaction instead of the pool: it is
\* pending until COMMIT and discarded by ROLLBACK
SingleUserUpsertInTx(r) ==
    /\ pc[r] = "s_user"
    /\ ~UserLocked(body[r].client_id, r)
    /\ tx' = [tx EXCEPT ![r].users =
                Put(@, body[r].client_id,
                    eventUserUpsert(Overlay(pixel_users, @), body[r], issued[r])[body[r].client_id])]
    /\ pc' = [pc EXCEPT ![r] = IF Truthy(Get(body[r], "session_id"))
                                 THEN "s_session" ELSE "s_connect"]
    /\ Issue(r, pc'[r])
    /\ UNCHANGED <<now, ticks, dedupe, db, nextId, route, body, headers, idx, ok, warns,
                   eventDbId, conn, resp, checks, faults>>

\* await pool.query(INSERT INTO pixel_users ...) returns; autocommitted,
\* with the last_seen built when it was issued; the session upsert is issued
SingleUserUpsert(r) ==
    /\ pc[r] = "s_user"
    /\ ~UserLocked(body[r].client_id, r)
    /\ pixel_users' = eventUserUpsert(pixel_users, body[r], issued[r])
    /\ pc' = [pc EXCEPT ![r] = IF Truthy(Get(body[r], "session_id"))
                                 THEN "s_session" ELSE "s_connect"]
    /\ Issue(r, pc'[r])
    /\ UNCHANGED <<now, ticks, dedupe, pixel_events, pixel_sessions, pixel_metadata, nextId,
                   route, body, headers, idx, ok, warns, eventDbId, tx, conn, resp,
                   checks, faults>>

\* await pool.query(INSERT INTO pixel_sessions ...) returns; autocommitted,
\* with the started_at built when it was issued
SingleSessionUpsert(r) ==
    /\ pc[r] = "s_session"
    /\ ~SessionLocked(body[r].session_id, r)
    /\ pixel_sessions' = eventSessionUpsert(pixel_sessions, body[r], issued[r])
    /\ pc' = [pc EXCEPT ![r] = "s_connect"]
    /\ Issue(r, pc'[r])
    /\ UNCHANGED <<now, ticks, dedupe, pixel_events, pixel_users, pixel_metadata, nextId,
                   route, body, headers, idx, ok, warns, eventDbId, tx, conn,
                   resp, checks, faults>>

\* a pool.query or pool.connect of the outer try block rejects:
\* the outer catch answers 500 server_error
SingleOuterFails(r) ==
    /\ pc[r] \in {"s_user", "s_session", "s_connect"}
    /\ faults < MaxFaults
    /\ faults' = faults + 1
    /\ Respond(r, [status |-> 500, error |-> "server_error"])
    /\ pc' = [pc EXCEPT ![r] = "done"]
    /\ Issue(r, pc'[r])
    /\ UNCHANGED <<now, ticks, dedupe, db, nextId, route, body, headers, idx, ok, warns,
                   eventDbId, tx, conn, checks>>

\* await pool.connect() returns
SingleConnect(r) ==
    /\ pc[r] = "s_connect"
    /\ conn' = [conn EXCEPT ![r] = "held"]
    /\ tx' = [tx EXCEPT ![r] = EmptyTx]
    /\ pc' = [pc EXCEPT ![r] = "s_begin"]
    /\ UNCHANGED <<now, ticks, dedupe, db, nextId, route, body, headers, idx, ok, warns,
                   eventDbId, resp, checks, faults, issued>>

\* await client.query("BEGIN") returns
SingleBegin(r) ==
    /\ pc[r] = "s_begin"
    /\ pc' = [pc EXCEPT ![r] = "s_event"]
    /\ UNCHANGED <<now, ticks, dedupe, db, nextId, route, body, headers, idx, ok, warns,
                   eventDbId, tx, conn, resp, checks, faults, issued>>

\* ev.user_agent || req.headers["user-agent"] || null
singleUserAgent(ev, hd) ==
    IF Truthy(Get(ev, "user_agent")) THEN ev.user_agent
    ELSE OrNull(Get(hd, "user-agent"))

\* await client.query(insertSql, params) returns rows[0].id
SingleEventInsert(r) ==
    /\ pc[r] = "s_event"
    /\ tx' = [tx EXCEPT ![r].events =
                @ \cup {eventRow(nextId, body[r], singleUserAgent(body[r], headers[r]), r, 0)}]
    /\ eventDbId' = [eventDbId EXCEPT ![r] = nextId]
    /\ nextId' = nextId + 1
    /\ pc' = [pc EXCEPT ![r] = "s_meta"]
    /\ UNCHANGED <<now, ticks, dedupe, db, route, body, headers, idx, ok, warns, conn, resp, checks, faults, issued>>

\* await client.query(INSERT INTO pixel_metadata ...) returns
SingleMetadataInsert(r) ==
    /\ pc[r] = "s_meta"
    /\ tx' = [tx EXCEPT ![r].metadata =
                @ \cup {metadataRow(eventDbId[r], headers[r], r)}]
    /\ pc' = [pc EXCEPT ![r] = "s_commit"]
    /\ UNCHANGED <<now, ticks, dedupe, db, nextId, route, body, headers, idx, ok, warns,
                   eventDbId, conn, resp, checks, faults, issued>>

\* COMMIT makes the writes of the transaction the committed rows
Commit(r) ==
    /\ pixel_events' = pixel_events \cup tx[r].events
    /\ pixel_metadata' = pixel_metadata \cup tx[r].metadata
    /\ pixel_users' = Overlay(pixel_users, tx[r].users)
    /\ pixel_sessions' = Overlay(pixel_sessions, tx[r].sessions)
    /\ tx' = [tx EXCEPT ![r] = EmptyTx]

\* await client.query("COMMIT") returns; res.json; finally client.release()
SingleCommit(r) ==
    /\ pc[r] = "s_commit"
    /\ Commit(r)
    /\ Respond(r, [status |-> 200, ok |-> TRUE, id |-> eventDbId[r], warns |-> warns[r]])
    /\ conn' = [conn EXCEPT ![r] = "released"]
    /\ pc' = [pc EXCEPT ![r] = "done"]
    /\ UNCHANGED <<now, ticks, dedupe, nextId, route, body, headers, idx, ok, warns,
                   eventDbId, checks, faults, issued>>

\* a statement of the transaction rejects: catch issues ROLLBACK
SingleTxFails(r) ==
    /\ pc[r] \in {"s_begin", "s_event", "s_meta", "s_commit"}
    /\ faults < MaxFaults
    /\ faults' = faults + 1
    /\ pc' = [pc EXCEPT ![r] = "s_rollback"]
    /\ UNCHANGED <<now, ticks, dedupe, db, nextId, route, body, headers, idx, ok, warns,
                   eventDbId, tx, conn, resp, checks, issued>>

\* the event insert issued outside the transaction: ROLLBACK keeps it
SingleRollbackKeepsEvent(r) ==
    /\ pc[r] = "s_rollback"
    /\ pixel_events' = pixel_events \cup tx[r].events
    /\ tx' = [tx EXCEPT ![r] = EmptyTx]
    /\ Respond(r, [status |-> 500, error |-> "db_error"])
    /\ conn' = [conn EXCEPT ![r] = "released"]
    /\ pc' = [pc EXCEPT ![r] = "done"]
    /\ UNCHANGED <<now, ticks, dedupe, pixel_users, pixel_sessions, pixel_metadata,
                   nextId, route, body, headers, idx, ok, warns, eventDbId, checks,
                   faults, issued>>

\* await client.query("ROLLBACK") returns; 500 db_error; finally client.release()
SingleRollback(r) ==
    /\ pc[r] = "s_rollback"
    /\ tx' = [tx EXCEPT ![r] = EmptyTx]
    /\ Respond(r, [status |-> 500, error |-> "db_error"])
    /\ conn' = [conn EXCEPT ![r] = "released"]
    /\ pc' = [pc EXCEPT ![r] = "done"]
    /\ UNCHANGED <<now, ticks, dedupe, db, nextId, route, body, headers, idx, ok, warns,
                   eventDbId, checks, faults, issued>>

\* ROLLBACK itself rejects: finally releases the client (the connection
\* ends and the server aborts its transaction), the outer catch answers
SingleRollbackFails(r) ==
    /\ pc[r] = "s_rollback"
    /\ faults < MaxFaults + 1
    /\ faults' = faults + 1
    /\ tx' = [tx EXCEPT ![r] = EmptyTx]
    /\ Respond(r, [status |-> 500, error |-> "server_error"])
    /\ conn' = [conn EXCEPT ![r] = "released"]
    /\ pc' = [pc EXCEPT ![r] = "done"]
    /\ UNCHANGED <<now, ticks, dedupe, db, nextId, route, body, headers, idx, ok, warns,
                   eventDbId, checks, issued>>

(* -------------------------- POST /events/bulk ------------------------- *)
\* the for loop from item i up to its next await: items with validation
\* errors and duplicates are skipped (continue); at the first item that
\* passes both, the loop suspends in that item's first query; at an item
\* that is null, validateEvent throws (it reads ev.event_id)
RECURSIVE bulkLoop(_, _, _, _, _, _)
bulkLoop(d, chk, events, i, t, r) ==
    IF i > Len(events) THEN [dedupe |-> d, checks |-> chk, idx |-> i, threw |-> FALSE]
    ELSE IF IsNull(events[i])
      THEN [dedupe |-> d, checks |-> chk, idx |-> i, threw |-> TRUE]
    ELSE IF Len(validateEvent(events[i]).errs) > 0
      THEN bulkLoop(d, chk, events, i + 1, t, r)
    ELSE LET s == shouldStore(d, events[i], t)
             c == Append(chk, CheckRecord(r, i, events[i], t, s.result))
         IN  IF s.result
               THEN [dedupe |-> s.dedupe, checks |-> c, idx |-> i, threw |-> FALSE]
               ELSE bulkLoop(s.dedupe, c, events, i + 1, t, r)

\* where the handler suspends once the loop has reached position i
BulkSuspendAt(events, i, n) ==
    IF i > Len(events) THEN (IF n > 0 THEN "b_meta" ELSE "b_commit")
    ELSE IF Truthy(Get(events[i], "client_id")) THEN "b_user"
    ELSE IF Truthy(Get(events[i], "session_id")) THEN "b_session"
    ELSE "b_event"

\* run the loop from position i with n items ingested so far; an exception
\* thrown in the loop is caught by the catch of the transaction, which
\* issues ROLLBACK
BulkContinue(r, i, n) ==
    LET l == bulkLoop(dedupe, checks, body[r], i, now, r)
    IN  /\ dedupe' = l.dedupe
        /\ checks' = l.checks
        /\ idx' = [idx EXCEPT ![r] = l.idx]
        /\ ok' = [ok EXCEPT ![r] = n]
        /\ pc' = [pc EXCEPT ![r] = IF l.threw THEN "b_rollback"
                                   ELSE BulkSuspendAt(body[r], l.idx, n)]

\* the handler sweeping the dedupe cache before it looks at the batch
BulkStartSweeps(r, events, hd) ==
    /\ Free(r)
    /\ route' = [route EXCEPT ![r] = "bulk"]
    /\ body' = [body EXCEPT ![r] = events]
    /\ headers' = [headers EXCEPT ![r] = hd]
    /\ dedupe' = Sweep(dedupe, now)
    /\ IF Len(events) = 0
         THEN /\ Respond(r, [status |-> 200, ok |-> TRUE, ingested |-> 0])
              /\ pc' = [pc EXCEPT ![r] = "done"]
         ELSE /\ pc' = [pc EXCEPT ![r] = "b_connect"]
              /\ UNCHANGED resp
    /\ UNCHANGED <<now, ticks, db, nextId, idx, ok, warns, eventDbId, tx,
                   conn, checks, faults, issued>>

\* the handler runs from the request to pool.connect()
BulkStart(r, events, hd) ==
    /\ Free(r)
    /\ route' = [route EXCEPT ![r] = "bulk"]
    /\ body' = [body EXCEPT ![r] = events]
    /\ headers' = [headers EXCEPT ![r] = hd]
    /\ IF Len(events) = 0
         THEN /\ Respond(r, [status |-> 200, ok |-> TRUE, ingested |-> 0])
              /\ pc' = [pc EXCEPT ![r] = "done"]
         ELSE /\ pc' = [pc EXCEPT ![r] = "b_connect"]
              /\ UNCHANGED resp
    /\ UNCHANGED <<now, ticks, dedupe, db, nextId, idx, ok, warns, eventDbId, tx,
                   conn, checks, faults, issued>>

\* await pool.connect() returns
BulkConnect(r) ==
    /\ pc[r] = "b_connect"
    /\ conn' = [conn EXCEPT ![r] = "held"]
    /\ tx' = [tx EXCEPT ![r] = EmptyTx]
    /\ pc' = [pc EXCEPT ![r] = "b_begin"]
    /\ UNCHANGED <<now, ticks, dedupe, db, nextId, route, body, headers, idx, ok, warns,
                   eventDbId, resp, checks, faults, issued>>

\* pool.connect() rejects: the outer catch answers 500 server_error
BulkConnectFails(r) ==
    /\ pc[r] = "b_connect"
    /\ faults < MaxFaults
    /\ faults' = faults + 1
    /\ Respond(r, [status |-> 500, error |-> "server_error"])
    /\ pc' = [pc EXCEPT ![r] = "done"]
    /\ UNCHANGED <<now, ticks, dedupe, db, nextId, route, body, headers, idx, ok, warns,
                   eventDbId, tx, conn, checks, issued>>

\* await client.query("BEGIN") returns; the loop starts
BulkBegin(r) ==
    /\ pc[r] = "b_begin"
    /\ BulkContinue(r, 1, 0)
    /\ Issue(r, pc'[r])
    /\ UNCHANGED <<now, ticks, db, nextId, route, body, headers, warns, eventDbId, tx,
                   conn, resp, faults>>

\* the client upsert of the batch issued on the pool: committed at once
BulkUserUpsertOnPool(r) ==
    /\ pc[r] = "b_user"
    /\ LET ev == body[r][idx[r]]
       IN  /\ ~UserLocked(ev.client_id, r)
           /\ pixel_users' = bulkUserUpsert(pixel_users, ev, issued[r])
           /\ pc' = [pc EXCEPT ![r] = IF Truthy(Get(ev, "session_id"))
                                        THEN "b_session" ELSE "b_event"]
    /\ Issue(r, pc'[r])
    /\ UNCHANGED <<now, ticks, dedupe, pixel_events, pixel_sessions, pixel_metadata,
                   nextId, route, body, headers, idx, ok, warns, eventDbId, tx, conn,
                   resp, checks, faults>>

\* await client.query(INSERT INTO pixel_users ...) returns
BulkUserUpsert(r) ==
    /\ pc[r] = "b_user"
    /\ LET ev == body[r][idx[r]]
       IN  /\ ~UserLocked(ev.client_id, r)
           /\ tx' = [tx EXCEPT ![r].users =
                       Put(@, ev.client_id,
                           bulkUserUpsert(Overlay(pixel_users, @), ev, issued[r])[ev.client_id])]
           /\ pc' = [pc EXCEPT ![r] = IF Truthy(Get(ev, "session_id"))
                                        THEN "b_session" ELSE "b_event"]
    /\ Issue(r, pc'[r])
    /\ UNCHANGED <<now, ticks, dedupe, db, nextId, route, body, headers, idx, ok, warns,
                   eventDbId, conn, resp, checks, faults>>

\* await client.query(INSERT INTO pixel_sessions ...) returns
BulkSessionUpsert(r) ==
    /\ pc[r] = "b_session"
    /\ LET ev == body[r][idx[r]]
       IN  /\ ~SessionLocked(ev.session_id, r)
           /\ tx' = [tx EXCEPT ![r].sessions =
                       Put(@, ev.session_id,
                           bulkSessionUpsert(Overlay(pixel_sessions, @), ev, issued[r])[ev.session_id])]
    /\ pc' = [pc EXCEPT ![r] = "b_event"]
    /\ Issue(r, pc'[r])
    /\ UNCHANGED <<now, ticks, dedupe, db, nextId, route, body, headers, idx, ok, warns,
                   eventDbId, conn, resp, checks, faults>>

\* ev.user_agent || null
bulkUserAgent(ev) == OrNull(Get(ev, "user_agent"))

\* the batch writing one metadata row per inserted event
BulkEventInsertWithMetadata(r) ==
    /\ pc[r] = "b_event"
    /\ LET ev == body[r][idx[r]]
       IN  tx' = [tx EXCEPT ![r].events =
                    @ \cup {eventRow(nextId, ev, OrNull(Get(ev, "user_agent")), r, idx[r])},
                            ![r].metadata = @ \cup {metadataRow(nextId, headers[r], r)}]
    /\ nextId' = nextId + 1
    /\ BulkContinue(r, idx[r] + 1, ok[r] + 1)
    /\ Issue(r, pc'[r])
    /\ UNCHANGED <<now, ticks, db, route, body, headers, warns, eventDbId, conn, resp, faults>>

\* await client.query(INSERT INTO pixel_events ...) returns; ok++; the
\* loop goes on with the next item
BulkEventInsert(r) ==
    /\ pc[r] = "b_event"
    /\ LET ev == body[r][idx[r]]
       IN  tx' = [tx EXCEPT ![r].events =
                    @ \cup {eventRow(nextId, ev, bulkUserAgent(ev), r, idx[r])}]
    /\ nextId' = nextId + 1
    /\ BulkContinue(r, idx[r] + 1, ok[r] + 1)
    /\ Issue(r, pc'[r])
    /\ UNCHANGED <<now, ticks, db, route, body, headers, warns, eventDbId, conn, resp, faults>>

\* if (ok > 0): await client.query(INSERT INTO pixel_metadata ...) returns
BulkMetadataInsert(r) ==
    /\ pc[r] = "b_meta"
    /\ tx' = [tx EXCEPT ![r].metadata = @ \cup {metadataRow(0, headers[r], r)}]
    /\ pc' = [pc EXCEPT ![r] = "b_commit"]
    /\ UNCHANGED <<now, ticks, dedupe, db, nextId, route, body, headers, idx, ok, warns,
                   eventDbId, conn, resp, checks, faults, issued>>

\* await client.query("COMMIT") returns; res.json; finally client.release()
BulkCommit(r) ==
    /\ pc[r] = "b_commit"
    /\ Commit(r)
    /\ Respond(r, [status |-> 200, ok |-> TRUE, ingested |-> ok[r]])
    /\ conn' = [conn EXCEPT ![r] = "released"]
    /\ pc' = [pc EXCEPT ![r] = "done"]
    /\ UNCHANGED <<now, ticks, dedupe, nextId, route, body, headers, idx, ok, warns,
                   eventDbId, checks, faults, issued>>

\* a statement of the transaction rejects: catch issues ROLLBACK
\* (the other way into catch is an exception thrown in the loop)
BulkTxFails(r) ==
    /\ pc[r] \in {"b_begin", "b_user", "b_session", "b_event", "b_meta", "b_commit"}
    /\ faults < MaxFaults
    /\ faults' = faults + 1
    /\ pc' = [pc EXCEPT ![r] = "b_rollback"]
    /\ Issue(r, pc'[r])
    /\ UNCHANGED <<now, ticks, dedupe, db, nextId, route, body, headers, idx, ok, warns,
                   eventDbId, tx, conn, resp, checks>>

\* a rollback that also takes the fingerprints of the batch out of the cache
BulkRollbackForgets(r) ==
    /\ pc[r] = "b_rollback"
    /\ tx' = [tx EXCEPT ![r] = EmptyTx]
    /\ dedupe' = [k \in DOMAIN dedupe \ { DedupeKey(body[r][i]) : i \in DOMAIN body[r] }
                     |-> dedupe[k]]
    /\ Respond(r, [status |-> 500, error |-> "db_error"])
    /\ conn' = [conn EXCEPT ![r] = "released"]
    /\ pc' = [pc EXCEPT ![r] = "done"]
    /\ UNCHANGED <<now, ticks, db, nextId, route, body, headers, idx, ok, warns,
                   eventDbId, checks, faults, issued>>

\* await client.query("ROLLBACK") returns; 500 db_error; finally client.release()
BulkRollback(r) ==
    /\ pc[r] = "b_rollback"
    /\ tx' = [tx EXCEPT ![r] = EmptyTx]
    /\ Respond(r, [status |-> 500, error |-> "db_error"])
    /\ conn' = [conn EXCEPT ![r] = "released"]
    /\ pc' = [pc EXCEPT ![r] = "done"]
    /\ UNCHANGED <<now, ticks, dedupe, db, nextId, route, body, headers, idx, ok, warns,
                   eventDbId, checks, faults, issued>>

\* ROLLBACK itself rejects: finally releases the client (the connection
\* ends and the server aborts its transaction), the outer catch answers
BulkRollbackFails(r) ==
    /\ pc[r] = "b_rollback"
    /\ faults < MaxFaults + 1
    /\ faults' = faults + 1
    /\ tx' = [tx EXCEPT ![r] = EmptyTx]
    /\ Respond(r, [status |-> 500, error |-> "server_error"])
    /\ conn' = [conn EXCEPT ![r] = "released"]
    /\ pc' = [pc EXCEPT ![r] = "done"]
    /\ UNCHANGED <<now, ticks, dedupe, db, nextId, route, body, headers, idx, ok, warns,
                   eventDbId, checks, issued>>

(* --------------------------- specification ---------------------------- *)
\* a handler resumes from the awaited call it is suspended at
Resume(r) ==
    \/ GetUsersQuery(r)
    \/ GetUserQuery(r)
    \/ GetSessionsQuery(r)
    \/ PostUsersQuery(r)
    \/ PostSessionsQuery(r)
    \/ PostQueryFails(r)
    \/ PostQueryFailsExit(r)
    \/ PostQueryFailsAnswered(r)
    \/ SingleUserUpsert(r)
    \/ SingleSessionUpsert(r)
    \/ SingleOuterFails(r)
    \/ SingleConnect(r)
    \/ SingleBegin(r)
    \/ SingleEventInsert(r)
    \/ SingleMetadataInsert(r)
    \/ SingleCommit(r)
    \/ SingleTxFails(r)
    \/ SingleRollback(r)
    \/ SingleRollbackFails(r)
    \/ BulkConnect(r)
    \/ BulkConnectFails(r)
    \/ BulkBegin(r)
    \/ BulkUserUpsert(r)
    \/ BulkSessionUpsert(r)
    \/ BulkEventInsert(r)
    \/ BulkMetadataInsert(r)
    \/ BulkCommit(r)
    \/ BulkTxFails(r)
    \/ BulkRollback(r)
    \/ BulkRollbackFails(r)

\* a request arrives
Receive(r) ==
    \/ GetUsers(r)
    \/ \E c \in ClientParams : GetUser(r, c)
    \/ \E b \in UserBodies : PostUsers(r, b)
    \/ GetSessions(r)
    \/ \E b \in SessionBodies : PostSessions(r, b)
    \/ \E q \in SingleRequests : SingleStart(r, q.body, q.headers)
    \/ \E q \in BatchRequests : BulkStart(r, q.body, q.headers)
    \/ \E b \in PurchaseBodies : PostPurchases(r, b, UaHeaders)
    \/ GetHealth(r)

\* handlers run concurrently, interleaved at their awaited calls: a request
\* arrives, a suspended handler resumes, or the clock moves, at any moment
Next ==
    \/ \E d \in TickSteps : Tick(d)
    \/ \E r \in Reqs : Receive(r)
    \/ \E r \in Reqs : Resume(r)

Spec == Init /\ [][Next]_vars

\* the same handlers serving the requests that race on one fingerprint
ReceiveRace(r) ==
    \/ GetUsers(r)
    \/ \E c \in RaceParams : GetUser(r, c)
    \/ \E b \in RaceUsers : PostUsers(r, b)
    \/ GetSessions(r)
    \/ \E b \in RaceSessions : PostSessions(r, b)
    \/ \E q \in RaceSingles : SingleStart(r, q.body, q.headers)
    \/ \E q \in RaceBatches : BulkStart(r, q.body, q.headers)
    \/ \E b \in RacePurchases : PostPurchases(r, b, UaHeaders)
    \/ GetHealth(r)

NextConc ==
    \/ \E d \in TickSteps : Tick(d)
    \/ \E r \in Reqs : ReceiveRace(r)
    \/ \E r \in Reqs : Resume(r)

SpecConc == Init /\ [][NextConc]_vars

(* ------------------------------ history -------------------------------- *)
\* the event a dedupe check or an event row belongs to
ItemOf(r, i) == IF i = 0 THEN body[r] ELSE body[r][i]

\* event rows written so far, committed or pending in a transaction
AllRows == pixel_events \cup UNION { tx[r].events : r \in Reqs }

RowsOf(r, i) == { row \in AllRows : row.req = r /\ row.item = i }
StoredRowsOf(r, i) == { row \in pixel_events : row.req = r /\ row.item = i }

SamePair(c, d) == c.event_name = d.event_name /\ c.event_id = d.event_id

Deduped == [status |-> 200, ok |-> TRUE, deduped |-> TRUE]

Finished(r) == pc[r] = "done"

\* the process has not exited
Running == \A r \in Reqs : pc[r] # "exited"

\* the handler of check c answered without a 4xx/5xx for c: deduped on the
\* single path, and nothing at all for a skipped item of a batch
SkippedQuietly(c) ==
    /\ RowsOf(c.req, c.item) = {}
    /\ c.item = 0 => resp[c.req] = <<Deduped>>

(* ------------------------------- C1 ----------------------------------- *)
\* C1 as stated: of any two dedupe checks with the same (event_name,
\* event_id) at most 60000 ms apart, the second is a duplicate: it inserts
\* no event row and is answered deduped (single) or skipped (batch).
C1_AnyPairSecondDeduped ==
    \A i, j \in DOMAIN checks :
        (i < j /\ SamePair(checks[i], checks[j])
               /\ checks[j].at - checks[i].at <= Window)
        => (~checks[j].result /\ SkippedQuietly(checks[j]))

\* C1 amended: when the first of the two is the one that registered the
\* fingerprint (shouldStore returned true for it) and the second is checked
\* at most 60000 ms later, the second inserts no event row and is answered
\* deduped (single) or skipped (batch), whatever its other fields.
C1_RegisteredThenDeduped ==
    \A i, j \in DOMAIN checks :
        (i < j /\ SamePair(checks[i], checks[j]) /\ checks[i].result
               /\ checks[j].at - checks[i].at <= Window)
        => (~checks[j].result /\ SkippedQuietly(checks[j]))

\* a single event accepted, and inside the window a batch item with the
\* same pair and another client checked at a later time
C1_Witness ==
    \E i, j \in DOMAIN checks :
        /\ i < j /\ SamePair(checks[i], checks[j]) /\ checks[i].result
        /\ checks[i].item = 0 /\ checks[j].item > 0
        /\ checks[j].at > checks[i].at
        /\ checks[j].at - checks[i].at <= Window
        /\ ItemOf(checks[i].req, checks[i].item).client_id
             # ItemOf(checks[j].req, checks[j].item).client_id

(* ------------------------------- C2 ----------------------------------- *)
\* check j is shadowed: an earlier check with the same dedupe key was
\* accepted at most 60000 ms before it
Shadowed(j) ==
    \E k \in DOMAIN checks :
        /\ k < j /\ checks[k].key = checks[j].key /\ checks[k].result
        /\ checks[j].at - checks[k].at <= Window

\* the event of check c is stored: its own event row and, on the single
\* path, one metadata row for that row
StoredOwnRows(c) ==
    /\ Cardinality(StoredRowsOf(c.req, c.item)) = 1
    /\ c.item = 0 =>
         \A row \in StoredRowsOf(c.req, c.item) :
            Cardinality({ m \in pixel_metadata : m.pixel_event_id = row.id }) = 1

\* C2 (violated by the code): two submissions with the same pair whose
\* checks are more than 60000 ms apart are both stored, each with its own
\* rows, when no storage fault occurs; the two are submissions that are not
\* themselves duplicates, that is, neither is shadowed by an accepted
\* submission with the same dedupe key in the 60000 ms before its check.
C2_FarApartUnshadowedBothStored ==
    \A i, j \in DOMAIN checks :
        (/\ i < j /\ SamePair(checks[i], checks[j])
         /\ checks[j].at - checks[i].at > Window
         /\ ~Shadowed(i) /\ ~Shadowed(j)
         /\ faults = 0 /\ Finished(checks[i].req) /\ Finished(checks[j].req))
        => (/\ checks[i].result /\ checks[j].result
            /\ StoredOwnRows(checks[i]) /\ StoredOwnRows(checks[j])
            /\ StoredRowsOf(checks[i].req, checks[i].item)
                 # StoredRowsOf(checks[j].req, checks[j].item))

(* ------------------------------- C3 ----------------------------------- *)
Missing(ev, k) == ~Has(ev, k) \/ ev[k] = ""

\* the error codes the validation rules give ev, one per failing field
ExpectedErrs(ev) ==
    { c \in {"missing:event_id", "missing:event_name", "missing:client_id",
             "missing:ecommerce.value", "missing:ecommerce.currency"} :
        \/ c = "missing:event_id" /\ Missing(ev, "event_id")
        \/ c = "missing:event_name" /\ Missing(ev, "event_name")
        \/ c = "missing:client_id" /\ Missing(ev, "client_id")
        \/ /\ c = "missing:ecommerce.value"
           /\ Has(ev, "event_name") /\ ev.event_name = "purchase"
           /\ ~(Has(ev, "ecommerce") /\ Has(ev.ecommerce, "value")
                  /\ ev.ecommerce.value.type = "number")
        \/ /\ c = "missing:ecommerce.currency"
           /\ Has(ev, "event_name") /\ ev.event_name = "purchase"
           /\ ~(Has(ev, "ecommerce") /\ Has(ev.ecommerce, "currency")
                  /\ ev.ecommerce.currency.type = "string") }

ExpectedWarns(ev) ==
    IF Missing(ev, "session_id") THEN <<"recommend:session_id">> ELSE <<>>

Started(r) == pc[r] # "idle"

\* C3: an event with a hard validation error gets one error code per
\* failing field and never an event row: POST /events answers 400
\* invalid_event with errs and warns, POST /events/bulk skips the item and
\* does not count it; a missing session_id alone only warns and does not
\* end the request with 400.
C3_InvalidNeverStored ==
    /\ \A r \in Reqs : (Started(r) /\ route[r] = "single") =>
         IF ExpectedErrs(body[r]) # {}
           THEN /\ Len(resp[r]) = 1
                /\ resp[r][1].status = 400
                /\ resp[r][1].error = "invalid_event"
                /\ Range(resp[r][1].errs) = ExpectedErrs(body[r])
                /\ Len(resp[r][1].errs) = Cardinality(ExpectedErrs(body[r]))
                /\ resp[r][1].warns = ExpectedWarns(body[r])
                /\ RowsOf(r, 0) = {}
           ELSE /\ \A k \in DOMAIN resp[r] : resp[r][k].status # 400
                /\ \E k \in DOMAIN checks : checks[k].req = r
    /\ \A r \in Reqs : (Started(r) /\ route[r] = "bulk") =>
         /\ \A i \in DOMAIN body[r] :
               ExpectedErrs(body[r][i]) # {} => RowsOf(r, i) = {}
         /\ \A k \in DOMAIN resp[r] :
               resp[r][k].status = 200 =>
                  resp[r][k].ingested
                    <= Cardinality({ i \in DOMAIN body[r] : ExpectedErrs(body[r][i]) = {} })

\* a purchase with two failing fields was answered 400 with both codes, and
\* an event that lacks only session_id was stored with the warning
C3_Witness ==
    /\ \E r \in Reqs : /\ route[r] = "single" /\ Finished(r)
                       /\ Cardinality(ExpectedErrs(body[r])) = 2
                       /\ resp[r][1].status = 400
    /\ \E r \in Reqs : /\ route[r] = "single" /\ Finished(r)
                       /\ resp[r][1].status = 200
                       /\ "warns" \in DOMAIN resp[r][1]
                       /\ resp[r][1].warns = <<"recommend:session_id">>
                       /\ StoredRowsOf(r, 0) # {}

(* ------------------------------- C4 ----------------------------------- *)
MetadataOf(r) == { m \in pixel_metadata : m.req = r }

\* C4: in every committed state each event row of the single path has
\* exactly one metadata row with its id, each metadata row with a
\* non-sentinel pixel_event_id references an existing event row, and a
\* request whose transaction failed leaves neither row and is answered 500.
C4_SingleWriteAtomic ==
    /\ \A row \in pixel_events : row.item = 0 =>
          Cardinality({ m \in pixel_metadata : m.pixel_event_id = row.id }) = 1
    /\ \A m \in pixel_metadata : m.pixel_event_id # 0 =>
          \E row \in pixel_events : row.id = m.pixel_event_id
    /\ \A r \in Reqs : route[r] = "single" =>
          /\ pc[r] = "s_rollback" => (StoredRowsOf(r, 0) = {} /\ MetadataOf(r) = {})
          /\ (Finished(r) /\ resp[r][1].status # 200) =>
                (StoredRowsOf(r, 0) = {} /\ MetadataOf(r) = {})
          /\ (Finished(r) /\ conn[r] = "released" /\ StoredRowsOf(r, 0) = {}) =>
                (resp[r][1].status = 500
                   /\ (faults <= 1 => resp[r][1].error = "db_error"))

\* the event insert succeeded, a later statement failed, the request ended
\* with db_error
C4_Witness ==
    \E r \in Reqs : /\ route[r] = "single" /\ Finished(r) /\ eventDbId[r] # 0
                    /\ resp[r] = <<[status |-> 500, error |-> "db_error"]>>
                    /\ StoredRowsOf(r, 0) = {}

(* ------------------------------- C5 ----------------------------------- *)
\* handler r takes a step (the process exiting is a step of no handler)
Steps(r) == pc'[r] # pc[r] /\ pc'[r] # "exited"

\* C5: the only step of a batch handler that changes the four stores is its
\* successful COMMIT; when a statement of the batch transaction fails, the
\* handler ends with its pending writes discarded, the stores as they
\* were, and a 500 answer instead of a success count.
C5_BatchFaultDiscardsAll ==
    [][\A r \in Reqs :
         (Steps(r) /\ route'[r] = "bulk") =>
            IF pc[r] = "b_commit" /\ faults' = faults
              THEN resp'[r] = <<[status |-> 200, ok |-> TRUE, ingested |-> ok[r]]>>
              ELSE /\ db' = db
                   /\ pc[r] = "b_rollback" =>
                        /\ pc'[r] = "done"
                        /\ tx'[r] = EmptyTx
                        /\ Len(resp'[r]) = 1
                        /\ resp'[r][1].status = 500
                        /\ \A row \in pixel_events' : row.req # r
                        /\ \A m \in pixel_metadata' : m.req # r]_vars

\* a batch of events (no null among them) ended with 500 after one of its
\* items had been inserted: a statement of its transaction failed
C5_Witness ==
    \E r \in Reqs : /\ route[r] = "bulk" /\ Finished(r) /\ ok[r] >= 1
                    /\ faults >= 1
                    /\ \A i \in DOMAIN body[r] : body[r][i] # NullItem
                    /\ resp[r][1].status = 500
                    /\ \A row \in pixel_events : row.req # r

(* ------------------------------- C6 ----------------------------------- *)
\* the items of batch r that passed validateEvent and shouldStore
AcceptedItems(r) ==
    { i \in DOMAIN body[r] :
        /\ ExpectedErrs(body[r][i]) = {}
        /\ \E k \in DOMAIN checks :
              checks[k].req = r /\ checks[k].item = i /\ checks[k].result }

\* C6 (violated by the code): with no storage fault a batch ends with
\* ingested = the number of items that passed validateEvent and shouldStore,
\* and exactly those items have an event row.
C6_IngestedCountsAccepted ==
    \A r \in Reqs :
        (route[r] = "bulk" /\ Finished(r) /\ faults = 0) =>
            /\ resp[r] = <<[status |-> 200, ok |-> TRUE,
                            ingested |-> Cardinality(AcceptedItems(r))]>>
            /\ \A i \in DOMAIN body[r] :
                  Cardinality(StoredRowsOf(r, i)) = IF i \in AcceptedItems(r) THEN 1 ELSE 0

(* ------------------------------- C7 ----------------------------------- *)
IdentityFields == {"user_id", "email_sha256", "phone_sha256"}

\* C7: once the stored user_id, email_sha256 or phone_sha256 of a client
\* is non-null, it is non-null in every later state.
C7_IdentityNeverNulled ==
    [][\A c \in DOMAIN pixel_users : \A f \in IdentityFields :
          pixel_users[c][f] # Null =>
             (c \in DOMAIN pixel_users' /\ pixel_users'[c][f] # Null)]_vars

\* a client with a stored user_id was upserted by a request that carries no
\* user_id: POST /users, an event of POST /events, an item of a batch
C7_Witness ==
    \E c \in DOMAIN pixel_users :
        /\ pixel_users[c].user_id # Null
        /\ \E r \in Reqs :
              /\ Finished(r) /\ route[r] = "users" /\ body[r].client_id = c
              /\ ~Has(body[r], "user_id") /\ Len(resp[r]) = 1
              /\ resp[r][1].status = 200
              /\ resp[r][1].row.user_id # Null

(* ------------------------------- C8 ----------------------------------- *)
\* the items of request r that were accepted for storage
AcceptedBodies(r) ==
    IF route[r] = "single" THEN {body[r]}
    ELSE IF route[r] = "bulk" THEN { body[r][i] : i \in AcceptedItems(r) }
    ELSE {}

\* the transaction of request r commits in this step
Commits(r) ==
    /\ pc[r] \in {"s_commit", "b_commit"} /\ pc'[r] = "done"
    /\ resp'[r][1].status = 200

\* C8 as stated: when a request commits, every event it stored that carries
\* a non-null identify.user_id (email_sha256, phone_sha256) for a client
\* with a stored value leaves the stored value equal to the one it carries.
C8_EveryPathOverwrites ==
    [][\A r \in Reqs : Commits(r) =>
          \A ev \in AcceptedBodies(r) : \A f \in IdentityFields :
             (/\ Identify(ev, f) # Null
              /\ ev.client_id \in DOMAIN pixel_users
              /\ pixel_users[ev.client_id][f] # Null)
             => pixel_users'[ev.client_id][f] = Identify(ev, f)]_vars

\* request o carries a value of identity field f for client c, through
\* POST /users or POST /events
Carries(o, c, f) ==
    /\ route[o] \in {"users", "single"}
    /\ Get(body[o], "client_id") = c
    /\ IF route[o] = "users" THEN OrNull(Get(body[o], f)) # Null
       ELSE Identify(body[o], f) # Null

\* a POST /events handler between the return of its client upsert and the
\* end of its COMMIT
UpsertedUncommitted == {"s_session", "s_connect", "s_begin", "s_event", "s_meta", "s_commit"}

\* C8 amended: on POST /events the client upsert of an accepted event that
\* carries a non-empty identify.user_id (email_sha256, phone_sha256) leaves
\* the stored value equal to the one it carries, whatever was stored
\* before, and from then until the request has committed the only step
\* that changes it is the client upsert of another request that carries a
\* value of that field for that client; a step of POST /events/bulk never
\* changes a stored user_id, email_sha256 or phone_sha256 of an existing
\* client.
C8_SinglePathOverwrites ==
    [][\A r \in Reqs :
          /\ (Steps(r) /\ pc[r] = "s_user" /\ pc'[r] # "done") =>
                \A f \in IdentityFields :
                   Identify(body[r], f) # Null =>
                      pixel_users'[body[r].client_id][f] = Identify(body[r], f)
          /\ (route[r] = "single" /\ pc[r] \in UpsertedUncommitted) =>
                \A f \in IdentityFields :
                   (/\ Identify(body[r], f) # Null
                    /\ pixel_users[body[r].client_id][f] = Identify(body[r], f)
                    /\ pixel_users'[body[r].client_id][f] # Identify(body[r], f))
                   => \E o \in Reqs \ {r} :
                         /\ Steps(o) /\ pc[o] \in {"users_query", "s_user"}
                         /\ Carries(o, body[r].client_id, f)
          /\ (Steps(r) /\ route'[r] = "bulk") =>
                \A c \in DOMAIN pixel_users : \A f \in IdentityFields :
                   pixel_users'[c][f] = pixel_users[c][f]]_vars

\* a client whose stored user_id was set by one request has the user_id of
\* a later event of POST /events that carried another one
C8_Witness ==
    \E r1, r2 \in Reqs :
        /\ r1 < r2 /\ Finished(r1) /\ Finished(r2)
        /\ route[r1] \in {"single", "users"} /\ route[r2] = "single"
        /\ Len(resp[r1]) = 1 /\ resp[r1][1].status = 200 /\ resp[r2][1].status = 200
        /\ StoredRowsOf(r2, 0) # {}
        /\ Has(body[r1], "client_id") /\ Has(body[r2], "client_id")
        /\ body[r1].client_id = body[r2].client_id
        /\ body[r1].client_id \in DOMAIN pixel_users
        /\ LET old == IF route[r1] = "users" THEN OrNull(Get(body[r1], "user_id"))
                      ELSE Identify(body[r1], "user_id")
           IN  /\ old # Null /\ Identify(body[r2], "user_id") # Null
               /\ old # Identify(body[r2], "user_id")
               /\ pixel_users[body[r2].client_id].user_id = Identify(body[r2], "user_id")

(* ------------------------------- C9 ----------------------------------- *)
\* the session rows as request r sees them: its pending writes over the
\* committed rows
SessionsSeenBy(r) == Overlay(pixel_sessions, tx[r].sessions)

\* C9 (violated by the code): for a session whose first_page is P, non-null,
\* the session upsert of an accepted event with page_location Q, and a POST
\* /sessions upsert with last_page Q, leave first_page = P and set
\* last_page to Q.
C9_FirstPageStickyLastPageFollows ==
    [][\A r \in Reqs :
          /\ (Steps(r) /\ pc[r] = "s_session" /\ pc'[r] = "s_connect"
                /\ body[r].session_id \in DOMAIN pixel_sessions
                /\ pixel_sessions[body[r].session_id].first_page # Null
                /\ Truthy(Get(body[r], "page_location")))
             => /\ pixel_sessions'[body[r].session_id].first_page
                     = pixel_sessions[body[r].session_id].first_page
                /\ pixel_sessions'[body[r].session_id].last_page = body[r].page_location
          /\ (Steps(r) /\ pc[r] = "sessions_query" /\ resp'[r] # resp[r]
                /\ body[r].session_id \in DOMAIN pixel_sessions
                /\ pixel_sessions[body[r].session_id].first_page # Null
                /\ Truthy(Get(body[r], "last_page")))
             => /\ pixel_sessions'[body[r].session_id].first_page
                     = pixel_sessions[body[r].session_id].first_page
                /\ pixel_sessions'[body[r].session_id].last_page = body[r].last_page
          /\ (Steps(r) /\ pc[r] = "b_session" /\ pc'[r] = "b_event"
                /\ body[r][idx[r]].session_id \in DOMAIN SessionsSeenBy(r)
                /\ SessionsSeenBy(r)[body[r][idx[r]].session_id].first_page # Null
                /\ Truthy(Get(body[r][idx[r]], "page_location")))
             => /\ tx'[r].sessions[body[r][idx[r]].session_id].first_page
                     = SessionsSeenBy(r)[body[r][idx[r]].session_id].first_page
                /\ tx'[r].sessions[body[r][idx[r]].session_id].last_page
                     = body[r][idx[r]].page_location]_vars

(* ------------------------------- C10 ---------------------------------- *)
\* C10: with handlers interleaved at their awaited calls, two checks of one
\* key that both return true are more than 60000 ms apart, a check that
\* returns false has an accepted check of its key at most 60000 ms before
\* it, and while the process runs an entry registered at most 60000 ms ago
\* is still in the cache with its insertion time.
C10_DedupeAtomic ==
    /\ \A i, j \in DOMAIN checks :
          (i < j /\ checks[i].key = checks[j].key
                 /\ checks[i].result /\ checks[j].result)
          => checks[j].at - checks[i].at > Window
    /\ \A j \in DOMAIN checks : ~checks[j].result => Shadowed(j)
    /\ \A i \in DOMAIN checks :
          (Running /\ checks[i].result /\ now - checks[i].at <= Window)
          => (checks[i].key \in DOMAIN dedupe /\ dedupe[checks[i].key] = checks[i].at)

\* two handlers in flight at once raced on one fingerprint, one was
\* accepted, the other not, and an entry of another key outlived a sweep
C10_Witness ==
    /\ \E i, j \in DOMAIN checks :
          /\ i < j /\ checks[i].key = checks[j].key /\ checks[i].req # checks[j].req
          /\ checks[i].result /\ ~checks[j].result
          /\ pc[checks[i].req] \notin {"idle", "done", "exited"}
          /\ pc[checks[j].req] \notin {"idle", "done", "exited"}
    /\ Cardinality(DOMAIN dedupe) = 2

(* ------------------------------- C11 ---------------------------------- *)
\* request r ended with a 500 answer
Failed(r) == Finished(r) /\ Len(resp[r]) = 1 /\ resp[r][1].status = 500

\* C11: when a request that registered a fingerprint ends in a storage
\* failure (500), no event row of it is stored, the fingerprint stays in the
\* cache of the running process with its insertion time while it is at most
\* 60000 ms old, and a
\* later submission of the same (event_name, event_id) checked at most
\* 60000 ms after the first check is deduplicated and inserts no event row.
C11_FailedWriteStaysRegistered ==
    \A i \in DOMAIN checks :
        (checks[i].result /\ Failed(checks[i].req)) =>
            /\ RowsOf(checks[i].req, checks[i].item) = {}
            /\ (Running /\ now - checks[i].at <= Window) =>
                  (checks[i].key \in DOMAIN dedupe
                     /\ dedupe[checks[i].key] = checks[i].at)
            /\ \A j \in DOMAIN checks :
                  (i < j /\ SamePair(checks[i], checks[j])
                         /\ checks[j].at - checks[i].at <= Window)
                  => (/\ ~checks[j].result
                      /\ SkippedQuietly(checks[j])
                      /\ StoredRowsOf(checks[j].req, checks[j].item) = {})

\* a batch that had inserted an item rolled back, and the same pair
\* resubmitted through POST /events later in the window was answered deduped
C11_Witness ==
    \E i, j \in DOMAIN checks :
        /\ i < j /\ SamePair(checks[i], checks[j]) /\ checks[i].result
        /\ route[checks[i].req] = "bulk" /\ Failed(checks[i].req)
        /\ ok[checks[i].req] >= 1
        /\ checks[j].item = 0 /\ checks[j].req # checks[i].req
        /\ checks[j].at > checks[i].at
        /\ checks[j].at - checks[i].at <= Window
        /\ resp[checks[j].req] = <<Deduped>>

(* ------------------------------- C12 ---------------------------------- *)
\* the flat campaign fields present in ev, with their values
FlatFields(ev) == { <<k, ev[k]>> : k \in Range(LegacyKeys) \cap DOMAIN ev }

\* C12 (violated by the code): the campaign stored with an event is the
\* event's structured campaign object when it carries one (a campaign that
\* is null or "" is none); otherwise the object of exactly the flat
\* utm/click-id fields present, when at least one is present; otherwise
\* null.
C12_CampaignThreeCases ==
    \A row \in pixel_events :
        LET ev == ItemOf(row.req, row.item)
        IN  row.campaign =
              IF Has(ev, "campaign") /\ ~Falsy(ev.campaign) THEN JsonObject(ev.campaign)
              ELSE IF FlatFields(ev) # {} THEN JsonObject(FlatFields(ev))
              ELSE JsonNull

(* ------------------------------- C13 ---------------------------------- *)
\* the answer of a committed batch
BulkCommitted(r) ==
    /\ route[r] = "bulk" /\ Finished(r)
    /\ Len(resp[r]) = 1 /\ resp[r][1].status = 200

\* C13: a committed batch that ingested at least one item has exactly one
\* metadata row, with pixel_event_id 0; a committed batch that ingested
\* nothing has none; no metadata row carries the id of an event row written
\* by a batch, and nothing of a batch is in the metadata store before its
\* COMMIT.
C13_OneAggregateMetadataRow ==
    /\ \A r \in Reqs : BulkCommitted(r) =>
          IF resp[r][1].ingested > 0
            THEN /\ Cardinality(MetadataOf(r)) = 1
                 /\ \A m \in MetadataOf(r) : m.pixel_event_id = 0
                 /\ Cardinality({ row \in pixel_events : row.req = r })
                      = resp[r][1].ingested
            ELSE /\ MetadataOf(r) = {}
                 /\ \A row \in pixel_events : row.req # r
    /\ \A r \in Reqs : (route[r] = "bulk" /\ ~BulkCommitted(r)) => MetadataOf(r) = {}
    /\ \A m \in pixel_metadata : \A row \in pixel_events :
          row.item > 0 => m.pixel_event_id # row.id

\* one batch committed two items with a single metadata row, another batch
\* whose only item was skipped committed with ingested 0 and no metadata row
C13_Witness ==
    \E r1, r2 \in Reqs :
        /\ BulkCommitted(r1) /\ resp[r1][1].ingested = 2
        /\ Cardinality(MetadataOf(r1)) = 1
        /\ BulkCommitted(r2) /\ Len(body[r2]) > 0 /\ conn[r2] = "released"
        /\ resp[r2][1].ingested = 0 /\ MetadataOf(r2) = {}

(* ------------------------------- C14 ---------------------------------- *)
\* C14: the step that serves POST /events/bulk with an empty sequence
\* answers {ok:true, ingested:0} and ends the request; it acquires no
\* connection, opens no transaction, writes none of the four stores, and
\* leaves the dedupe cache as it was, stale entries included.
C14_EmptyBatchTouchesNothing ==
    [][\A r \in Reqs :
         (Steps(r) /\ route'[r] = "bulk" /\ body'[r] = <<>>) =>
            /\ resp'[r] = <<[status |-> 200, ok |-> TRUE, ingested |-> 0]>>
            /\ pc'[r] = "done"
            /\ conn' = conn /\ conn[r] = "none"
            /\ tx' = tx
            /\ db' = db /\ nextId' = nextId
            /\ dedupe' = dedupe /\ checks' = checks
            /\ faults' = faults]_vars

\* an empty batch was answered while the cache held an entry older than
\* 60000 ms, which is still there
C14_Witness ==
    \E r \in Reqs :
        /\ route[r] = "bulk" /\ Finished(r) /\ body[r] = <<>>
        /\ resp[r] = <<[status |-> 200, ok |-> TRUE, ingested |-> 0]>>
        /\ conn[r] = "none"
        /\ \E k \in DOMAIN dedupe : now - dedupe[k] > Window
        /\ pixel_events # {}

(* ------------------------------- C15 ---------------------------------- *)
\* the awaited calls of the handlers of POST /events and POST /events/bulk
Awaited == {"s_user", "s_session", "s_connect", "s_begin", "s_event", "s_meta",
            "s_commit", "s_rollback", "b_connect", "b_begin", "b_user",
            "b_session", "b_event", "b_meta", "b_commit", "b_rollback"}

\* C15 (violated by the code): at every moment a POST /events or POST
\* /events/bulk request that was received has ended with exactly one answer
\* and without a connection checked out, or its handler is suspended in an
\* awaited database call, from which it goes on when the call returns or
\* fails.
C15_AnsweredOrSuspended ==
    \A r \in Reqs : route[r] \in {"single", "bulk"} =>
        \/ Finished(r) /\ Len(resp[r]) = 1 /\ conn[r] # "held"
        \/ pc[r] \in Awaited

(* ------------------------------- C16 ---------------------------------- *)
\* the client rows as request r sees them: its pending writes over the
\* committed rows
UsersSeenBy(r) == Overlay(pixel_users, tx[r].users)

\* C16 (violated by the code): for an existing client, the client upsert of
\* an accepted POST /events event sets the stored traits to the event's
\* traits when it carries them and leaves them unchanged when it does not;
\* the client upsert of a batch item leaves the traits unchanged; both set
\* last_seen to the time at which the upsert was issued.
C16_TraitsByPath ==
    [][\A r \in Reqs :
          /\ (Steps(r) /\ pc[r] = "s_user" /\ pc'[r] # "done"
                /\ body[r].client_id \in DOMAIN pixel_users)
             => /\ pixel_users'[body[r].client_id].traits
                     = IF Truthy(Get(body[r], "traits")) THEN body[r].traits
                       ELSE pixel_users[body[r].client_id].traits
                /\ pixel_users'[body[r].client_id].last_seen = issued[r]
          /\ (Steps(r) /\ pc[r] = "b_user" /\ pc'[r] # "b_rollback"
                /\ body[r][idx[r]].client_id \in DOMAIN UsersSeenBy(r))
             => /\ tx'[r].users[body[r][idx[r]].client_id].traits
                     = UsersSeenBy(r)[body[r][idx[r]].client_id].traits
                /\ tx'[r].users[body[r][idx[r]].client_id].last_seen = issued[r]]_vars

(* ------------------------------- C17 ---------------------------------- *)
\* C17 (violated by the code): the user_agent of every stored event row is
\* the event's own user_agent field when it has one, otherwise the
\* user-agent header of the request that carried it, otherwise null.
C17_UserAgentFallback ==
    \A row \in pixel_events :
        LET ev == ItemOf(row.req, row.item)
        IN  row.user_agent =
              IF Truthy(Get(ev, "user_agent")) THEN ev.user_agent
              ELSE IF Truthy(Get(headers[row.req], "user-agent"))
                     THEN headers[row.req]["user-agent"]
              ELSE Null

(* ------------------------------- C18 ---------------------------------- *)
\* the time of the latest dedupe check
LastCheckAt == checks[Len(checks)].at

\* the accepted checks whose entry is at most 60000 ms old at the latest check
LiveChecks ==
    { i \in DOMAIN checks : checks[i].result /\ LastCheckAt - checks[i].at <= Window }

\* C18: the cache of the running process holds exactly the fingerprints
\* accepted at most 60000 ms before the latest check, each with the time of the check that accepted
\* it (a duplicate hit does not move it, and an older entry is gone after
\* the first check made past its window, whatever key that check had); a
\* check is refused exactly when an accepted check of its key lies at most
\* 60000 ms before it; so of three checks of one fingerprint at t0,
\* t1 <= t0 + 60000 and t2 > t0 + 60000, the first accepted, the second is
\* refused and the third, the first one past the window, is accepted.
C18_WindowFixedFromFirstSight ==
    /\ (Running /\ checks # <<>>) =>
          /\ DOMAIN dedupe = { checks[i].key : i \in LiveChecks }
          /\ \A i \in LiveChecks : dedupe[checks[i].key] = checks[i].at
    /\ checks = <<>> => dedupe = <<>>
    /\ \A j \in DOMAIN checks : checks[j].result <=> ~Shadowed(j)
    /\ \A i, j, k \in DOMAIN checks :
          (/\ i < j /\ j < k
           /\ checks[i].key = checks[j].key /\ checks[j].key = checks[k].key
           /\ checks[i].result
           /\ checks[j].at - checks[i].at <= Window
           /\ checks[k].at - checks[i].at > Window
           /\ \A m \in DOMAIN checks :
                 (i < m /\ m < k /\ checks[m].key = checks[i].key)
                 => checks[m].at - checks[i].at <= Window)
          => (~checks[j].result /\ checks[k].result)

\* one fingerprint checked at 0, at 60000 and at 60001: accepted, refused,
\* accepted, and the cache holds it with the time of the third check
C18_Witness ==
    \E i, j, k \in DOMAIN checks :
        /\ i < j /\ j < k
        /\ checks[i].key = checks[j].key /\ checks[j].key = checks[k].key
        /\ checks[i].result /\ ~checks[j].result /\ checks[k].result
        /\ checks[j].at - checks[i].at = Window
        /\ checks[k].at - checks[j].at <= Window
        /\ dedupe[checks[k].key] = checks[k].at

(* ------------------------------- C19 ---------------------------------- *)
\* C19 (violated by the code): every committed event row has a committed
\* client row for its client_id and, when its session_id is not null, a
\* committed session row for its session_id.
C19_RowsHaveOwners ==
    \A row \in pixel_events :
        /\ row.client_id \in DOMAIN pixel_users
        /\ row.session_id # Null => row.session_id \in DOMAIN pixel_sessions

(* ------------------------------- C20 ---------------------------------- *)
\* the submissions made so far that have a hard validation error
Rejected ==
    { x \in Reqs \X (0..MaxBatch) :
        \/ /\ x[2] = 0 /\ route[x[1]] = "single"
           /\ ExpectedErrs(body[x[1]]) # {}
        \/ /\ x[2] > 0 /\ route[x[1]] = "bulk" /\ x[2] <= Len(body[x[1]])
           /\ ExpectedErrs(body[x[1]][x[2]]) # {} }

\* C20: an event with a hard validation error never reaches shouldStore
\* and writes nothing: the step that answers 400 leaves the dedupe cache
\* and the four stores as they were, a rejected batch item leaves no cache
\* entry, no row and no pending write; so a check is refused only because
\* of an accepted event, and a valid event with the (event_name, event_id)
\* of a rejected one, checked with no accepted event of that key in the
\* 60000 ms before, is accepted and, when its request ends without a 500
\* answer, stored.
C20_RejectedLeavesNoTrace ==
    /\ [](\A k \in DOMAIN checks : <<checks[k].req, checks[k].item>> \notin Rejected)
    /\ [](\A x \in Rejected : RowsOf(x[1], x[2]) = {})
    /\ [](\A r \in Reqs : route[r] = "bulk" =>
             \A c \in DOMAIN tx[r].users :
                \E i \in AcceptedItems(r) : body[r][i].client_id = c)
    /\ [](\A k \in DOMAIN dedupe : \E i \in DOMAIN checks :
             checks[i].key = k /\ checks[i].result /\ checks[i].at = dedupe[k])
    /\ [](\A x \in Rejected : \A j \in DOMAIN checks :
             (/\ Get(ItemOf(x[1], x[2]), "event_name") = checks[j].event_name
              /\ Get(ItemOf(x[1], x[2]), "event_id") = checks[j].event_id
              /\ ~Shadowed(j))
             => /\ checks[j].result
                /\ (Finished(checks[j].req) /\ ~Failed(checks[j].req))
                      => StoredOwnRows(checks[j]))
    /\ [][\A r \in Reqs :
             (Steps(r) /\ route'[r] = "single" /\ ExpectedErrs(body'[r]) # {}) =>
                /\ pc'[r] = "done" /\ resp'[r][1].status = 400
                /\ dedupe' = dedupe /\ checks' = checks
                /\ db' = db /\ nextId' = nextId /\ tx' = tx /\ conn' = conn]_vars

\* an event without client_id was answered 400, and the corrected event
\* with the same event_name and event_id, sent at the same clock time, was
\* accepted and stored
C20_Witness ==
    \E r1, r2 \in Reqs :
        /\ r1 < r2 /\ route[r1] = "single" /\ route[r2] = "single"
        /\ <<r1, 0>> \in Rejected /\ resp[r1][1].status = 400
        /\ Truthy(Get(body[r1], "event_id")) /\ Truthy(Get(body[r1], "event_name"))
        /\ Get(body[r1], "event_id") = Get(body[r2], "event_id")
        /\ Get(body[r1], "event_name") = Get(body[r2], "event_name")
        /\ ticks = 0
        /\ Finished(r2) /\ StoredRowsOf(r2, 0) # {}

(* ------------------------------- C21 ---------------------------------- *)
\* C21 (violated by the code): a valid event whose (event_name, event_id)
\* pair differs from the pair of every event accepted in the 60000 ms
\* before its check is accepted by shouldStore.
C21_DistinctPairsNeverDuplicates ==
    \A j \in DOMAIN checks :
        (\A i \in DOMAIN checks :
            (i < j /\ checks[i].result /\ checks[j].at - checks[i].at <= Window)
            => ~SamePair(checks[i], checks[j]))
        => checks[j].result

(* ------------------------------- C22 ---------------------------------- *)
\* the awaited calls of POST /events that follow its two upserts
PastUpserts == {"s_connect", "s_begin", "s_event", "s_meta", "s_commit", "s_rollback"}

\* C22: on POST /events the client and session upserts run before a
\* connection is acquired and are committed at once: when the client upsert
\* returns, the committed client row has the time at which the upsert was
\* issued as last_seen and every identity field the event carries, and when
\* the session upsert returns, the committed session row exists with the
\* event's client_id; no later step of the request (pool.connect(), the
\* statements of the transaction, COMMIT, ROLLBACK) changes the client or
\* the session store, and the step that ends the request with 500
\* (connection not acquired, ROLLBACK done or ROLLBACK failed) leaves no
\* event row and no metadata row of the request.
C22_UpsertsSurviveRollback ==
    /\ [](\A r \in Reqs : (route[r] = "single" /\ pc[r] \in {"s_user", "s_session"})
             => conn[r] = "none")
    /\ [][\A r \in Reqs :
             /\ (Steps(r) /\ pc[r] = "s_user" /\ pc'[r] # "done") =>
                   /\ body[r].client_id \in DOMAIN pixel_users'
                   /\ pixel_users'[body[r].client_id].last_seen = issued[r]
                   /\ \A f \in IdentityFields :
                         Identify(body[r], f) # Null =>
                            pixel_users'[body[r].client_id][f] = Identify(body[r], f)
             /\ (Steps(r) /\ pc[r] = "s_session" /\ pc'[r] # "done") =>
                   /\ body[r].session_id \in DOMAIN pixel_sessions'
                   /\ pixel_sessions'[body[r].session_id].client_id
                        = ClientIdParam(body[r])
             /\ (Steps(r) /\ route[r] = "single" /\ pc[r] \in PastUpserts) =>
                   /\ pixel_users' = pixel_users
                   /\ pixel_sessions' = pixel_sessions
                   /\ (pc'[r] = "done" /\ resp'[r][1].status = 500) =>
                         /\ \A row \in pixel_events' : row.req # r
                         /\ \A m \in pixel_metadata' : m.req # r]_vars

\* POST /users gave a client a user_id; a later event of that client with
\* another user_id and a new session was inserted and rolled back: no event
\* or metadata row, the client has the event's user_id and the time of the
\* event as last_seen, and the session exists
C22_Witness ==
    \E r1, r2 \in Reqs :
        /\ r1 < r2 /\ route[r1] = "users" /\ route[r2] = "single"
        /\ Len(resp[r1]) = 1 /\ resp[r1][1].status = 200
        /\ Failed(r2) /\ conn[r2] = "released" /\ eventDbId[r2] # 0
        /\ Has(body[r1], "user_id") /\ body[r1].client_id = body[r2].client_id
        /\ resp[r2][1].error = "db_error"
        /\ StoredRowsOf(r2, 0) = {} /\ MetadataOf(r2) = {}
        /\ Identify(body[r2], "user_id") \notin {Null, body[r1].user_id}
        /\ pixel_users[body[r2].client_id].user_id = Identify(body[r2], "user_id")
        /\ pixel_users[body[r2].client_id].last_seen > resp[r1][1].row.last_seen
        /\ Truthy(Get(body[r2], "session_id"))
        /\ body[r2].session_id \in DOMAIN pixel_sessions
====
